---- MODULE Spec2Model ----
(***************************************************************************)
(* Realtime voice relay of backend/app: one relay session                  *)
(* (routers/websocket.py) on top of one RealtimeService                    *)
(* (services/realtime_service.py).                                         *)
(*                                                                         *)
(* The session is the coroutine websocket_endpoint; its two pipelines are  *)
(* the coroutines handle_client and handle_openai, joined by               *)
(* asyncio.gather.  The environment is the browser client (frames, close)  *)
(* and the speech backend (frames, normal or abnormal close).              *)
(***************************************************************************)
EXTENDS Integers, Sequences, FiniteSets, TLC

(***************************************************************************)
(* Bounds of the model.                                                    *)
(***************************************************************************)
\* Frames the environment delivers to one session, both sockets together.
MaxFrames == 4

\* Sends and disconnects a direct caller of the service object makes.
MaxCalls == 3

\* Upstream frames a consumer of listen_for_events alone lets it read.
MaxEvents == 3

\* Requests a client of the chat endpoints makes, one after the other.
MaxRequests == 2

\* Messages agent.stream produces for one request.
MaxChunks == 2

(***************************************************************************)
(* Base64, as base64.b64encode / base64.b64decode (non-strict) compute it. *)
(* A base64 text is a sequence of characters: 0..63 is the index of an     *)
(* alphabet character, PadChar is '=', anything above it a character       *)
(* outside the alphabet (a newline, a blank).  Bytes are 0..255.           *)
(***************************************************************************)
PadChar == 64
B64Error == <<-1>>

RECURSIVE B64Dec(_, _, _, _, _, _)
\* binascii.a2b_base64 with strict_mode off: s the text, i the position,
\* quad the position in the current quad, left the bits carried over, pads
\* the pads counted in this quad, out the bytes produced so far.
B64Dec(s, i, quad, left, pads, out) ==
    IF i > Len(s)
    THEN IF quad # 0 THEN B64Error ELSE out
    ELSE LET ch == s[i] IN
         IF ch = PadChar
         THEN IF quad >= 2 /\ quad + pads + 1 >= 4
              THEN out
              ELSE B64Dec(s, i + 1, quad, left,
                          IF quad >= 2 THEN pads + 1 ELSE pads, out)
         ELSE IF ch >= 64
         THEN B64Dec(s, i + 1, quad, left, pads, out)
         ELSE CASE quad = 0 -> B64Dec(s, i + 1, 1, ch, 0, out)
                [] quad = 1 -> B64Dec(s, i + 1, 2, ch % 16, 0,
                                      Append(out, (left * 4 + ch \div 16) % 256))
                [] quad = 2 -> B64Dec(s, i + 1, 3, ch % 4, 0,
                                      Append(out, (left * 16 + ch \div 4) % 256))
                [] quad = 3 -> B64Dec(s, i + 1, 0, 0, 0,
                                      Append(out, (left * 64 + ch) % 256))

b64decode(s) == B64Dec(s, 1, 0, 0, 0, <<>>)

RECURSIVE b64encode(_)
\* base64.b64encode: three bytes to four characters, the tail padded.
b64encode(bytes) ==
    CASE Len(bytes) = 0 -> <<>>
      [] Len(bytes) = 1 ->
            << bytes[1] \div 4, (bytes[1] % 4) * 16, PadChar, PadChar >>
      [] Len(bytes) = 2 ->
            << bytes[1] \div 4,
               (bytes[1] % 4) * 16 + bytes[2] \div 16,
               (bytes[2] % 16) * 4, PadChar >>
      [] OTHER ->
            << bytes[1] \div 4,
               (bytes[1] % 4) * 16 + bytes[2] \div 16,
               (bytes[2] % 16) * 4 + bytes[3] \div 64,
               bytes[3] % 64 >> \o b64encode(SubSeq(bytes, 4, Len(bytes)))

(***************************************************************************)
(* Client frames: the text the browser sends, as json.loads sees it.       *)
(*   json = "bad"    : not JSON (json.loads raises)                        *)
(*   json = "object" : a JSON object; type is its "type" field ("none"     *)
(*                     when absent), data its "data" field ("" when absent)*)
(***************************************************************************)
B64_A == <<16, 16, PadChar, PadChar>>        \* "QQ==" : the byte 65
B64_B == <<16, 32, PadChar, PadChar>>        \* "Qg==" : the byte 66
B64_Short == <<16, 16>>                      \* "QQ"   : incorrect padding

ClientFrames ==
    { [json |-> "object", type |-> "audio_chunk", data |-> B64_A],
      [json |-> "object", type |-> "audio_chunk", data |-> B64_B],
      [json |-> "object", type |-> "audio_chunk", data |-> B64_Short],
      [json |-> "object", type |-> "audio_complete", data |-> <<>>],
      [json |-> "object", type |-> "ping", data |-> <<>>],
      [json |-> "object", type |-> "none", data |-> <<>>],
      [json |-> "bad", type |-> "none", data |-> <<>>] }

(***************************************************************************)
(* Upstream frames: the text the backend sends, as json.loads sees it.     *)
(* text stands for the one payload field the event carries (transcript,    *)
(* delta, error.message), "" when the frame does not carry the field.      *)
(***************************************************************************)
UpstreamFrames ==
    { [json |-> "object", type |-> "session.created", text |-> ""],
      [json |-> "object", type |-> "session.updated", text |-> ""],
      [json |-> "object",
       type |-> "conversation.item.input_audio_transcription.completed",
       text |-> "hello"],
      [json |-> "object", type |-> "response.output_audio.delta", text |-> "QUJD"],
      [json |-> "object", type |-> "response.output_audio.delta", text |-> ""],
      [json |-> "object", type |-> "conversation.item.truncated", text |-> ""],
      [json |-> "object", type |-> "input_audio_buffer.speech_started", text |-> ""],
      [json |-> "object", type |-> "error", text |-> "boom"],
      [json |-> "object", type |-> "rate_limits.updated", text |-> ""],
      [json |-> "bad", type |-> "none", text |-> ""] }

\* An if/elif chain with the two "done" branches exchanged.
EventEnvelopes_SwapsDone(event) ==
    CASE event.type = "session.created" ->
            << [type |-> "connection_established",
                message |-> "Connected to AI agent"] >>
      [] event.type = "session.updated" -> <<>>
      [] event.type = "conversation.item.input_audio_transcription.completed" ->
            << [type |-> "user_transcript", text |-> event.text] >>
      [] event.type = "response.output_audio_transcript.delta" ->
            << [type |-> "agent_transcript_delta", text |-> event.text] >>
      [] event.type = "response.output_audio_transcript.done" ->
            << [type |-> "agent_transcript_complete", text |-> event.text] >>
      [] event.type = "response.output_audio.delta" ->
            IF event.text # ""
            THEN << [type |-> "audio_delta", audio |-> event.text] >>
            ELSE <<>>
      [] event.type = "response.output_audio.done" ->
            << [type |-> "response_complete"] >>
      [] event.type = "response.done" ->
            << [type |-> "audio_complete"] >>
      [] event.type = "conversation.item.truncated" ->
            << [type |-> "interruption", message |-> "User interrupted AI"] >>
      [] event.type = "input_audio_buffer.speech_started" ->
            << [type |-> "speech_started"] >>
      [] event.type = "error" ->
            << [type |-> "error",
                message |-> IF event.text = "" THEN "Unknown error"
                            ELSE event.text] >>
      [] OTHER -> <<>>

\* An if/elif chain without the `if audio_delta:` test: an empty delta is
\* yielded like any other.
EventEnvelopes_ForwardsEmptyDelta(event) ==
    CASE event.type = "session.created" ->
            << [type |-> "connection_established",
                message |-> "Connected to AI agent"] >>
      [] event.type = "session.updated" -> <<>>
      [] event.type = "conversation.item.input_audio_transcription.completed" ->
            << [type |-> "user_transcript", text |-> event.text] >>
      [] event.type = "response.output_audio_transcript.delta" ->
            << [type |-> "agent_transcript_delta", text |-> event.text] >>
      [] event.type = "response.output_audio_transcript.done" ->
            << [type |-> "agent_transcript_complete", text |-> event.text] >>
      [] event.type = "response.output_audio.delta" ->
            << [type |-> "audio_delta", audio |-> event.text] >>
      [] event.type = "response.output_audio.done" ->
            << [type |-> "audio_complete"] >>
      [] event.type = "response.done" ->
            << [type |-> "response_complete"] >>
      [] event.type = "conversation.item.truncated" ->
            << [type |-> "interruption", message |-> "User interrupted AI"] >>
      [] event.type = "input_audio_buffer.speech_started" ->
            << [type |-> "speech_started"] >>
      [] event.type = "error" ->
            << [type |-> "error",
                message |-> IF event.text = "" THEN "Unknown error"
                            ELSE event.text] >>
      [] OTHER -> <<>>

\* Every kind of frame the if/elif chain of listen_for_events tells apart:
\* the frames of the relay model, the four remaining event names, and an
\* error event without a message.
AllUpstreamFrames ==
    UpstreamFrames \cup
    { [json |-> "object", type |-> "response.output_audio_transcript.delta",
       text |-> "hi"],
      [json |-> "object", type |-> "response.output_audio_transcript.done",
       text |-> "hi there"],
      [json |-> "object", type |-> "response.output_audio.done", text |-> ""],
      [json |-> "object", type |-> "response.done", text |-> ""],
      [json |-> "object", type |-> "error", text |-> ""] }

(***************************************************************************)
(* listen_for_events: the envelopes one parsed upstream frame yields       *)
(* (none or one), by the if/elif chain on event_type.                      *)
(***************************************************************************)
EventEnvelopes(event) ==
    CASE event.type = "session.created" ->
            << [type |-> "connection_established",
                message |-> "Connected to AI agent"] >>
      [] event.type = "session.updated" -> <<>>
      [] event.type = "conversation.item.input_audio_transcription.completed" ->
            << [type |-> "user_transcript", text |-> event.text] >>
      [] event.type = "response.output_audio_transcript.delta" ->
            << [type |-> "agent_transcript_delta", text |-> event.text] >>
      [] event.type = "response.output_audio_transcript.done" ->
            << [type |-> "agent_transcript_complete", text |-> event.text] >>
      [] event.type = "response.output_audio.delta" ->
            IF event.text # ""
            THEN << [type |-> "audio_delta", audio |-> event.text] >>
            ELSE <<>>
      [] event.type = "response.output_audio.done" ->
            << [type |-> "audio_complete"] >>
      [] event.type = "response.done" ->
            << [type |-> "response_complete"] >>
      [] event.type = "conversation.item.truncated" ->
            << [type |-> "interruption", message |-> "User interrupted AI"] >>
      [] event.type = "input_audio_buffer.speech_started" ->
            << [type |-> "speech_started"] >>
      [] event.type = "error" ->
            << [type |-> "error",
                message |-> IF event.text = "" THEN "Unknown error"
                            ELSE event.text] >>
      [] OTHER -> <<>>

(***************************************************************************)
(* Messages of the relay.                                                  *)
(***************************************************************************)
\* connect(): the session.update negotiation frame.
SessionUpdate ==
    [type |-> "session.update",
     session |-> [type |-> "realtime", model |-> "gpt-realtime",
                  voice |-> "alloy", turn_detection |-> "server_vad",
                  create_response |-> TRUE, interrupt_response |-> TRUE,
                  output_modalities |-> <<"audio">>]]

\* send_audio(audio_bytes): the append frame, the bytes base64-encoded again.
AppendFrame(audio_bytes) ==
    [type |-> "input_audio_buffer.append", audio |-> b64encode(audio_bytes)]

\* commit_audio(): the commit frame.
CommitFrame == [type |-> "input_audio_buffer.commit"]

\* create_conversation_item(text): the item is always a system message.
ConversationItemFrame(text) ==
    [type |-> "conversation.item.create",
     item |-> [type |-> "message", role |-> "system",
               content |-> << [type |-> "input_text", text |-> text] >>]]

\* trigger_response(): the response.create frame.
ResponseCreateFrame == [type |-> "response.create"]

\* websocket_endpoint: the envelope sent when connect() returned False.
ConnectErrorEnvelope ==
    [type |-> "error", message |-> "Failed to connect to OpenAI Realtime API"]

\* listen_for_events: the envelope of its except clause, message str(e).
ListenErrorEnvelope(e) == [type |-> "error", message |-> e]

\* A send path that queues the newest frame first.
WsSend_NewestFirst(sent, msg) == <<msg>> \o sent

\* await self.ws.send(...): one frame written to the upstream socket.
WsSend(sent, msg) == Append(sent, msg)

\* A forwarder that applies the audio_delta exemption of the log line to
\* the send itself.
Forward_SkipsAudioDelta(out, event) ==
    IF event.type = "audio_delta" THEN out ELSE Append(out, event)

\* await websocket.send_text(json.dumps(event)) of handle_openai.
Forward(out, event) == Append(out, event)

\* A handler that commits on every audio_complete.
ShouldCommit_Always(n) == TRUE

\* handle_client: `if audio_chunks_received > 0` before commit_audio.
ShouldCommit(n) == n > 0

\* A handler that forgets to reset the counter after a commit.
CounterAfterCommit_NoReset(n) == n

\* handle_client: `audio_chunks_received = 0` after commit_audio.
CounterAfterCommit(n) == 0

\* A handler that sends the chunk and forgets to count it.
CounterAfterChunk_Skips(n) == n

\* handle_client: `audio_chunks_received += 1` after send_audio.
CounterAfterChunk(n) == n + 1

VARIABLES
    pc,                     \* websocket_endpoint: where the coroutine stands
    success,                \* websocket_endpoint: what connect() returned
                            \*   ("unset" before it returns)
    ws,                     \* RealtimeService.ws: "none" or "handle"
    is_connected,           \* RealtimeService.is_connected
    upSock,                 \* upstream transport: unopened, open, closed_ok,
                            \*   closed_err (peer), closed_local (ws.close())
    clientSock,             \* client transport: open, peer_closed, relay_closed
    hcPc,                   \* handle_client: init, recv (awaiting a frame), done
    hoPc,                   \* handle_openai: init, recv (awaiting a frame), done
    hcExit,                 \* why handle_client returned: none, disconnect, error
    hoExit,                 \* why handle_openai returned: none, upstream_closed,
                            \*   parse_error, write_failed
    audio_chunks_received,  \* handle_client's local counter
    clientIn,               \* frames handle_client has received, in order
    upIn,                   \* frames listen_for_events has received, in order
    upstreamSent,           \* frames written to the upstream socket, in order
    yielded,                \* envelopes listen_for_events has yielded, in order
    clientOut,              \* envelopes written to the client socket, in order
    closeCalls,             \* calls of self.ws.close()
    disconnectCalls,        \* calls of service.disconnect()
    raised,                 \* what the last call made directly on the service
                            \*   object raised to its caller ("none" if it
                            \*   returned); the relay's own calls are followed
                            \*   through pc, hcExit and hoExit instead
    chatPc,                 \* chat router: "idle", or "stream" while generate()
                            \*   of chat_stream is being iterated
    request,                \* chat router: the ChatRequest being handled
    uuidCalls,              \* chat router: calls of uuid.uuid4() so far
    log,                    \* chat router: one entry per request handled: the
                            \*   thread_id sent, the one put in the agent's
                            \*   config, the status and the thread_id returned
    sse,                    \* chat_stream: what generate() has yielded
    streamed,               \* the messages agent.stream has produced
    agentOutcome            \* agent.stream: none, running, completed, raised

vars == << pc, success, ws, is_connected, upSock, clientSock, hcPc, hoPc, hcExit, hoExit,
           audio_chunks_received, clientIn, upIn, upstreamSent, yielded,
           clientOut, closeCalls, disconnectCalls, raised,
           chatPc, request, uuidCalls, log, sse, streamed, agentOutcome >>

\* The chat router's variables, and their values before any request.
chatVars == << chatPc, request, uuidCalls, log, sse, streamed, agentOutcome >>

ChatIdle ==
    /\ chatPc = "idle"
    /\ request = [endpoint |-> "none", thread_id |-> "<None>", message |-> ""]
    /\ uuidCalls = 0
    /\ log = <<>>
    /\ sse = <<>>
    /\ streamed = <<>>
    /\ agentOutcome = "none"

serviceVars == << ws, is_connected, closeCalls, disconnectCalls, raised >>
clientPipeVars == << hcPc, hcExit, audio_chunks_received, clientIn >>
openaiPipeVars == << hoPc, hoExit, upIn, yielded >>

FramesLeft == Len(clientIn) + Len(upIn) < MaxFrames

\* websocket.accept() has returned and RealtimeService.__init__ has run.
Init ==
    /\ pc = "connect"
    /\ success = "unset"
    /\ ws = "none"
    /\ is_connected = FALSE
    /\ upSock = "unopened"
    /\ clientSock = "open"
    /\ hcPc = "init"
    /\ hoPc = "init"
    /\ hcExit = "none"
    /\ hoExit = "none"
    /\ audio_chunks_received = 0
    /\ clientIn = <<>>
    /\ upIn = <<>>
    /\ upstreamSent = <<>>
    /\ yielded = <<>>
    /\ clientOut = <<>>
    /\ closeCalls = 0
    /\ disconnectCalls = 0
    /\ raised = "none"
    /\ ChatIdle

(***************************************************************************)
(* The environment: either peer may close its socket at any time.          *)
(***************************************************************************)
ClientCloses ==
    /\ pc # "done"
    /\ clientSock = "open"
    /\ clientSock' = "peer_closed"
    /\ UNCHANGED << pc, success, upSock, upstreamSent, clientOut >>
    /\ UNCHANGED << serviceVars, clientPipeVars, openaiPipeVars >>
    /\ UNCHANGED chatVars

\* how = "closed_ok": a normal close; "closed_err": an abnormal one.
UpstreamCloses(how) ==
    /\ pc # "done"
    /\ upSock = "open"
    /\ upSock' = how
    /\ UNCHANGED << pc, success, clientSock, upstreamSent, clientOut >>
    /\ UNCHANGED << serviceVars, clientPipeVars, openaiPipeVars >>
    /\ UNCHANGED chatVars

(***************************************************************************)
(* RealtimeService.connect, called by websocket_endpoint.                  *)
(***************************************************************************)
\* websockets.connect raises (socket open or authentication fails).
ConnectOpenFails ==
    /\ pc = "connect"
    /\ is_connected' = FALSE
    /\ success' = "False"
    /\ pc' = "connect_failed"
    /\ UNCHANGED << ws, closeCalls, disconnectCalls, raised, upSock, clientSock,
                    upstreamSent, clientOut >>
    /\ UNCHANGED << clientPipeVars, openaiPipeVars >>
    /\ UNCHANGED chatVars

\* The socket opens, and self.ws.send(session_config) raises.
ConnectSendFails ==
    /\ pc = "connect"
    /\ ws' = "handle"
    /\ upSock' = "closed_err"
    /\ is_connected' = FALSE
    /\ success' = "False"
    /\ pc' = "connect_failed"
    /\ UNCHANGED << closeCalls, disconnectCalls, raised, clientSock,
                    upstreamSent, clientOut >>
    /\ UNCHANGED << clientPipeVars, openaiPipeVars >>
    /\ UNCHANGED chatVars

\* A connect that reports success on the opened socket without sending the
\* negotiation frame.
ConnectSucceeds_NoNegotiation ==
    /\ pc = "connect"
    /\ ws' = "handle"
    /\ upSock' = "open"
    /\ is_connected' = TRUE
    /\ success' = "True"
    /\ pc' = "gather"
    /\ hcPc' = "recv"
    /\ hoPc' = "recv"
    /\ UNCHANGED << closeCalls, disconnectCalls, raised, clientSock, clientOut,
                    hcExit, audio_chunks_received, clientIn,
                    hoExit, upIn, yielded, upstreamSent >>
    /\ UNCHANGED chatVars

\* A connect that sends the negotiation frame twice.
ConnectSucceeds_NegotiatesTwice ==
    /\ pc = "connect"
    /\ ws' = "handle"
    /\ upSock' = "open"
    /\ upstreamSent' = WsSend(WsSend(upstreamSent, SessionUpdate), SessionUpdate)
    /\ is_connected' = TRUE
    /\ success' = "True"
    /\ pc' = "gather"
    /\ hcPc' = "recv"
    /\ hoPc' = "recv"
    /\ UNCHANGED << closeCalls, disconnectCalls, raised, clientSock, clientOut,
                    hcExit, audio_chunks_received, clientIn,
                    hoExit, upIn, yielded >>
    /\ UNCHANGED chatVars

\* The socket opens, session.update is sent, connect returns True, and
\* asyncio.gather starts handle_client and handle_openai, each running to
\* its first await.
ConnectSucceeds ==
    /\ pc = "connect"
    /\ ws' = "handle"
    /\ upSock' = "open"
    /\ upstreamSent' = WsSend(upstreamSent, SessionUpdate)
    /\ is_connected' = TRUE
    /\ success' = "True"
    /\ pc' = "gather"
    /\ hcPc' = "recv"
    /\ hoPc' = "recv"
    /\ UNCHANGED << closeCalls, disconnectCalls, raised, clientSock, clientOut,
                    hcExit, audio_chunks_received, clientIn,
                    hoExit, upIn, yielded >>
    /\ UNCHANGED chatVars

(***************************************************************************)
(* websocket_endpoint after connect() returned False.                      *)
(***************************************************************************)
\* websocket.send_text(error) succeeds.
SendConnectError ==
    /\ pc = "connect_failed"
    /\ clientSock = "open"
    /\ clientOut' = Append(clientOut, ConnectErrorEnvelope)
    /\ pc' = "close_client"
    /\ UNCHANGED << success, upSock, clientSock, upstreamSent >>
    /\ UNCHANGED << serviceVars, clientPipeVars, openaiPipeVars >>
    /\ UNCHANGED chatVars

\* websocket.send_text(error) raises: the except clauses run (the second
\* send_text of `except Exception` raises as well and is passed over).
SendConnectErrorFails ==
    /\ pc = "connect_failed"
    /\ clientSock # "open"
    /\ pc' = "finally"
    /\ UNCHANGED << success, upSock, clientSock, upstreamSent, clientOut >>
    /\ UNCHANGED << serviceVars, clientPipeVars, openaiPipeVars >>
    /\ UNCHANGED chatVars

\* The same without the `return`: control falls through to asyncio.gather.
CloseClient_NoReturn ==
    /\ pc = "close_client"
    /\ clientSock' = IF clientSock = "open" THEN "relay_closed" ELSE clientSock
    /\ pc' = "gather"
    /\ hcPc' = "recv"
    /\ hoPc' = "recv"
    /\ UNCHANGED << success, upSock, upstreamSent, clientOut, serviceVars >>
    /\ UNCHANGED << hcExit, audio_chunks_received, clientIn,
                    hoExit, upIn, yielded >>
    /\ UNCHANGED chatVars

\* websocket.close(), then `return`: control passes to the finally clause.
\* On a socket the peer closed meanwhile close() changes nothing (and if it
\* raises, the except clause cannot send either).
CloseClient ==
    /\ pc = "close_client"
    /\ clientSock' = IF clientSock = "open" THEN "relay_closed" ELSE clientSock
    /\ pc' = "finally"
    /\ UNCHANGED << success, upSock, upstreamSent, clientOut >>
    /\ UNCHANGED << serviceVars, clientPipeVars, openaiPipeVars >>
    /\ UNCHANGED chatVars

(***************************************************************************)
(* handle_client: one iteration of `while True`, from receive_text to the  *)
(* next receive_text or to the except clause.                              *)
(***************************************************************************)
\* A handler that treats an audio_complete without pending chunks as a
\* fault of the loop body.
ClientFrameRaises_OnEmptyComplete(f) ==
    \/ f.json = "bad"
    \/ /\ f.type = "audio_chunk"
       /\ \/ b64decode(f.data) = B64Error
          \/ upSock # "open"
    \/ /\ f.type = "audio_complete"
       /\ \/ ~ShouldCommit(audio_chunks_received)
          \/ upSock # "open"

\* The frame raises inside the loop body: json.loads, base64.b64decode, or
\* self.ws.send on an upstream socket that is no longer open.
ClientFrameRaises(f) ==
    \/ f.json = "bad"
    \/ /\ f.type = "audio_chunk"
       /\ \/ b64decode(f.data) = B64Error
          \/ upSock # "open"
    \/ /\ f.type = "audio_complete"
       /\ ShouldCommit(audio_chunks_received)
       /\ upSock # "open"

\* A handler that answers a frame of a type it does not know with an error
\* envelope.
HandleClientFrame_RejectsUnknownType(f) ==
    /\ pc = "gather"
    /\ hcPc = "recv"
    /\ clientSock = "open"
    /\ FramesLeft
    /\ clientIn' = Append(clientIn, f)
    /\ IF ClientFrameRaises(f)
       THEN /\ hcPc' = "done"
            /\ hcExit' = "error"
            /\ UNCHANGED << audio_chunks_received, upstreamSent, clientOut >>
       ELSE /\ UNCHANGED << hcPc, hcExit >>
            /\ CASE f.type = "audio_chunk" ->
                      /\ upstreamSent' =
                            WsSend(upstreamSent, AppendFrame(b64decode(f.data)))
                      /\ audio_chunks_received' =
                            CounterAfterChunk(audio_chunks_received)
                      /\ UNCHANGED clientOut
                 [] f.type = "audio_complete" ->
                      /\ UNCHANGED clientOut
                      /\ IF ShouldCommit(audio_chunks_received)
                         THEN /\ upstreamSent' = WsSend(upstreamSent, CommitFrame)
                              /\ audio_chunks_received' =
                                    CounterAfterCommit(audio_chunks_received)
                         ELSE UNCHANGED << upstreamSent, audio_chunks_received >>
                 [] OTHER ->
                      /\ clientOut' = Append(clientOut,
                            [type |-> "error", message |-> "Unknown message type"])
                      /\ UNCHANGED << upstreamSent, audio_chunks_received >>
    /\ UNCHANGED << pc, success, upSock, clientSock >>
    /\ UNCHANGED << serviceVars, openaiPipeVars >>
    /\ UNCHANGED chatVars

HandleClientFrame(f) ==
    /\ pc = "gather"
    /\ hcPc = "recv"
    /\ clientSock = "open"
    /\ FramesLeft
    /\ clientIn' = Append(clientIn, f)
    /\ IF ClientFrameRaises(f)
       THEN \* except Exception: logged, the coroutine returns
            /\ hcPc' = "done"
            /\ hcExit' = "error"
            /\ UNCHANGED << audio_chunks_received, upstreamSent >>
       ELSE /\ UNCHANGED << hcPc, hcExit >>
            /\ CASE f.type = "audio_chunk" ->
                      /\ upstreamSent' =
                            WsSend(upstreamSent, AppendFrame(b64decode(f.data)))
                      /\ audio_chunks_received' =
                            CounterAfterChunk(audio_chunks_received)
                 [] f.type = "audio_complete" ->
                      IF ShouldCommit(audio_chunks_received)
                      THEN /\ upstreamSent' = WsSend(upstreamSent, CommitFrame)
                           /\ audio_chunks_received' =
                                 CounterAfterCommit(audio_chunks_received)
                      ELSE UNCHANGED << upstreamSent, audio_chunks_received >>
                 [] OTHER ->
                      UNCHANGED << upstreamSent, audio_chunks_received >>
    /\ UNCHANGED << pc, success, upSock, clientSock, clientOut >>
    /\ UNCHANGED << serviceVars, openaiPipeVars >>
    /\ UNCHANGED chatVars

\* receive_text raises WebSocketDisconnect: logged, the coroutine returns.
HandleClientDisconnect ==
    /\ pc = "gather"
    /\ hcPc = "recv"
    /\ clientSock # "open"
    /\ hcPc' = "done"
    /\ hcExit' = "disconnect"
    /\ UNCHANGED << audio_chunks_received, clientIn >>
    /\ UNCHANGED << pc, success, upSock, clientSock, upstreamSent, clientOut >>
    /\ UNCHANGED << serviceVars, openaiPipeVars >>
    /\ UNCHANGED chatVars

(***************************************************************************)
(* handle_openai: one iteration of `async for event in                     *)
(* service.listen_for_events()`, i.e. one frame read by the generator, the *)
(* envelope it yields (if any) and the send_text of that envelope.         *)
(***************************************************************************)
\* A generator that surfaces an event it does not handle to the client.
Yields_SurfacesUnknown(f) ==
    IF f.json = "bad"
    THEN << ListenErrorEnvelope("Expecting value: line 1 column 1 (char 0)") >>
    ELSE IF f.type \in {"rate_limits.updated"}
    THEN << [type |-> "unknown", message |-> f.type] >>
    ELSE EventEnvelopes(f)

\* A generator that leaves input_audio_buffer.speech_started to its final
\* else branch, with the other input_audio_buffer.* events it ignores.
Yields_DropsSpeechStarted(f) ==
    IF f.json = "bad"
    THEN << ListenErrorEnvelope("Expecting value: line 1 column 1 (char 0)") >>
    ELSE IF f.type = "input_audio_buffer.speech_started"
    THEN <<>>
    ELSE EventEnvelopes(f)

\* What the generator yields for frame f; json.loads raising is caught by
\* the generator's except clause, which yields one error envelope.
Yields(f) ==
    IF f.json = "bad"
    THEN << ListenErrorEnvelope("Expecting value: line 1 column 1 (char 0)") >>
    ELSE EventEnvelopes(f)

\* A generator whose try statement is inside the loop: it goes on.
GeneratorEndsAfter_Never(f) == "no"

\* A generator that returns after yielding the envelope of an error event.
GeneratorEndsAfter_ErrorEvent(f) ==
    IF f.json = "bad" THEN "parse_error"
    ELSE IF f.type = "error" THEN "error_event"
    ELSE "no"

\* Whether the generator is exhausted after frame f: its try statement
\* encloses the whole `async for`, so the except clause ends the iteration.
GeneratorEndsAfter(f) == IF f.json = "bad" THEN "parse_error" ELSE "no"

\* A loop body that passes over a failed send_text instead of breaking.
ForwardYielded_ContinuesAfterFailedWrite(evs, ends) ==
    /\ yielded' = yielded \o evs
    /\ clientOut' = IF evs # <<>> /\ clientSock = "open"
                    THEN Forward(clientOut, evs[1]) ELSE clientOut
    /\ hoPc' = IF ends # "no" THEN "done" ELSE "recv"
    /\ hoExit' = IF ends # "no" THEN ends ELSE hoExit

\* The body of handle_openai for the yielded envelopes evs (none or one);
\* ends is "no" when the generator goes on to its next frame, else why it
\* is exhausted after this one.
ForwardYielded(evs, ends) ==
    /\ yielded' = yielded \o evs
    /\ IF evs = <<>>
       THEN /\ UNCHANGED clientOut
            /\ hoPc' = IF ends # "no" THEN "done" ELSE "recv"
            /\ hoExit' = IF ends # "no" THEN ends ELSE hoExit
       ELSE IF clientSock = "open"
       THEN /\ clientOut' = Forward(clientOut, evs[1])
            /\ hoPc' = IF ends # "no" THEN "done" ELSE "recv"
            /\ hoExit' = IF ends # "no" THEN ends ELSE hoExit
       ELSE \* send_text raises: `except Exception: break`
            /\ UNCHANGED clientOut
            /\ hoPc' = "done"
            /\ hoExit' = "write_failed"

\* A relay that drops the pending chunks when the backend reports a
\* barge-in: handle_openai reaching into handle_client's counter.
HandleOpenaiFrame_ClearsPendingOnInterruption(f) ==
    /\ pc = "gather"
    /\ hoPc = "recv"
    /\ upSock = "open"
    /\ FramesLeft
    /\ upIn' = Append(upIn, f)
    /\ ForwardYielded(Yields(f), GeneratorEndsAfter(f))
    /\ audio_chunks_received' = IF f.type = "conversation.item.truncated"
                                THEN 0 ELSE audio_chunks_received
    /\ UNCHANGED << pc, success, upSock, clientSock, upstreamSent >>
    /\ UNCHANGED << serviceVars, hcPc, hcExit, clientIn >>
    /\ UNCHANGED chatVars

HandleOpenaiFrame(f) ==
    /\ pc = "gather"
    /\ hoPc = "recv"
    /\ upSock = "open"
    /\ FramesLeft
    /\ upIn' = Append(upIn, f)
    /\ ForwardYielded(Yields(f), GeneratorEndsAfter(f))
    /\ UNCHANGED << pc, success, upSock, clientSock, upstreamSent >>
    /\ UNCHANGED << serviceVars, clientPipeVars >>
    /\ UNCHANGED chatVars

\* A generator that reports a normal close to the client as an error.
HandleOpenaiClosedOK_YieldsError ==
    /\ pc = "gather"
    /\ hoPc = "recv"
    /\ upSock = "closed_ok"
    /\ ForwardYielded(<< ListenErrorEnvelope("connection closed") >>,
                      "upstream_closed")
    /\ UNCHANGED upIn
    /\ UNCHANGED << pc, success, upSock, clientSock, upstreamSent >>
    /\ UNCHANGED << serviceVars, clientPipeVars >>
    /\ UNCHANGED chatVars

\* The upstream socket was closed normally: `async for message in self.ws`
\* ends, the generator returns, handle_openai returns.
HandleOpenaiClosedOK ==
    /\ pc = "gather"
    /\ hoPc = "recv"
    /\ upSock = "closed_ok"
    /\ hoPc' = "done"
    /\ hoExit' = "upstream_closed"
    /\ UNCHANGED << upIn, yielded >>
    /\ UNCHANGED << pc, success, upSock, clientSock, upstreamSent, clientOut >>
    /\ UNCHANGED << serviceVars, clientPipeVars >>
    /\ UNCHANGED chatVars

\* The upstream socket was closed abnormally: the iteration raises
\* ConnectionClosedError, the generator's except clause yields one error
\* envelope and the generator ends.
HandleOpenaiClosedErr ==
    /\ pc = "gather"
    /\ hoPc = "recv"
    /\ upSock = "closed_err"
    /\ ForwardYielded(<< ListenErrorEnvelope("no close frame received or sent") >>,
                      "upstream_closed")
    /\ UNCHANGED upIn
    /\ UNCHANGED << pc, success, upSock, clientSock, upstreamSent >>
    /\ UNCHANGED << serviceVars, clientPipeVars >>
    /\ UNCHANGED chatVars

(***************************************************************************)
(* websocket_endpoint: the join and the finally clause.                    *)
(***************************************************************************)
\* A wait that returns as soon as one of the two coroutines has returned.
GatherReturns_FirstCompleted ==
    /\ pc = "gather"
    /\ hcPc = "done" \/ hoPc = "done"
    /\ pc' = "finally"
    /\ UNCHANGED << success, upSock, clientSock, upstreamSent, clientOut >>
    /\ UNCHANGED << serviceVars, clientPipeVars, openaiPipeVars >>
    /\ UNCHANGED chatVars

\* A wait on handle_client alone: the endpoint goes on to its finally
\* clause when the browser side has ended.
GatherReturns_WhenClientPipelineEnds ==
    /\ pc = "gather"
    /\ hcPc = "done"
    /\ pc' = "finally"
    /\ UNCHANGED << success, upSock, clientSock, upstreamSent, clientOut >>
    /\ UNCHANGED << serviceVars, clientPipeVars, openaiPipeVars >>
    /\ UNCHANGED chatVars

\* asyncio.gather returns once both coroutines have returned (neither lets
\* an Exception escape, and gather cancels nothing on a normal return).
GatherReturns ==
    /\ pc = "gather"
    /\ hcPc = "done"
    /\ hoPc = "done"
    /\ pc' = "finally"
    /\ UNCHANGED << success, upSock, clientSock, upstreamSent, clientOut >>
    /\ UNCHANGED << serviceVars, clientPipeVars, openaiPipeVars >>
    /\ UNCHANGED chatVars

\* A disconnect that tests is_connected instead of the handle.
disconnect_ClosesOnlyConnected ==
    /\ closeCalls' = IF is_connected THEN closeCalls + 1 ELSE closeCalls
    /\ upSock' = IF is_connected /\ upSock = "open" THEN "closed_local" ELSE upSock
    /\ ws' = IF is_connected THEN "none" ELSE ws
    /\ is_connected' = FALSE
    /\ disconnectCalls' = disconnectCalls + 1
    /\ raised' = "none"

\* A disconnect that closes the socket and keeps the handle.
disconnect_KeepsHandle ==
    /\ closeCalls' = IF ws # "none" THEN closeCalls + 1 ELSE closeCalls
    /\ upSock' = IF ws # "none" /\ upSock = "open" THEN "closed_local" ELSE upSock
    /\ ws' = ws
    /\ is_connected' = FALSE
    /\ disconnectCalls' = disconnectCalls + 1
    /\ raised' = "none"

\* RealtimeService.disconnect: `if self.ws:` close it and drop the handle;
\* ws.close() on a socket that is already closed does nothing and returns.
disconnect ==
    /\ closeCalls' = IF ws # "none" THEN closeCalls + 1 ELSE closeCalls
    /\ upSock' = IF ws # "none" /\ upSock = "open" THEN "closed_local" ELSE upSock
    /\ ws' = "none"
    /\ is_connected' = FALSE
    /\ disconnectCalls' = disconnectCalls + 1
    /\ raised' = "none"

\* A cleanup that disconnects only a service that reports itself connected.
FinallyClause_OnlyIfConnected ==
    /\ pc = "finally"
    /\ IF is_connected THEN disconnect ELSE UNCHANGED << serviceVars, upSock >>
    /\ pc' = "done"
    /\ UNCHANGED << success, clientSock, upstreamSent, clientOut >>
    /\ UNCHANGED << clientPipeVars, openaiPipeVars >>
    /\ UNCHANGED chatVars

\* finally: await service.disconnect()
FinallyClause ==
    /\ pc = "finally"
    /\ disconnect
    /\ pc' = "done"
    /\ UNCHANGED << success, clientSock, upstreamSent, clientOut >>
    /\ UNCHANGED << clientPipeVars, openaiPipeVars >>
    /\ UNCHANGED chatVars

Next ==
    \/ ClientCloses
    \/ \E how \in {"closed_ok", "closed_err"} : UpstreamCloses(how)
    \/ ConnectOpenFails
    \/ ConnectSendFails
    \/ ConnectSucceeds
    \/ SendConnectError
    \/ SendConnectErrorFails
    \/ CloseClient
    \/ \E f \in ClientFrames : HandleClientFrame(f)
    \/ HandleClientDisconnect
    \/ \E f \in UpstreamFrames : HandleOpenaiFrame(f)
    \/ HandleOpenaiClosedOK
    \/ HandleOpenaiClosedErr
    \/ GatherReturns
    \/ FinallyClause

Spec == Init /\ [][Next]_vars

\* The steps the event loop itself takes: a coroutine that can run does run.
\* Frames and closes are the peers' and carry no fairness.
RelaySteps ==
    \/ ConnectOpenFails
    \/ ConnectSendFails
    \/ ConnectSucceeds
    \/ SendConnectError
    \/ SendConnectErrorFails
    \/ CloseClient
    \/ HandleClientDisconnect
    \/ HandleOpenaiClosedOK
    \/ HandleOpenaiClosedErr
    \/ GatherReturns
    \/ FinallyClause

FairSpec == Spec /\ WF_vars(RelaySteps)

(***************************************************************************)
(* Vocabulary of the properties.                                           *)
(***************************************************************************)
IsAppend(m) == m.type = "input_audio_buffer.append"
IsCommit(m) == m.type = "input_audio_buffer.commit"

NumAppends == Cardinality({i \in 1..Len(upstreamSent) : IsAppend(upstreamSent[i])})
NumCommits == Cardinality({i \in 1..Len(upstreamSent) : IsCommit(upstreamSent[i])})

\* The client frames whose loop iteration ran to its end: all received
\* frames, but the last one when it raised.
Handled ==
    IF hcExit = "error" THEN SubSeq(clientIn, 1, Len(clientIn) - 1) ELSE clientIn

IsChunk(f) == f.json = "object" /\ f.type = "audio_chunk"
IsComplete(f) == f.json = "object" /\ f.type = "audio_complete"

\* Frame i of Handled is an audio_complete that closes an utterance of at
\* least one chunk: a chunk lies between it and the audio_complete before.
ClosesUtterance(i) ==
    /\ IsComplete(Handled[i])
    /\ \E j \in 1..(i - 1) :
          /\ IsChunk(Handled[j])
          /\ \A k \in (j + 1)..(i - 1) : ~IsComplete(Handled[k])

(***************************************************************************)
(* C1: every input_audio_buffer.commit written upstream directly follows   *)
(* an input_audio_buffer.append: a commit is issued only with at least one *)
(* chunk sent since the previous commit (or since the session started).    *)
(***************************************************************************)
C1_CommitOnlyAfterAppend ==
    \A i \in 1..Len(upstreamSent) :
        IsCommit(upstreamSent[i]) => (i > 1 /\ IsAppend(upstreamSent[i - 1]))

\* One commit issued, and a second audio_complete that found no chunk pending.
C1_Witness ==
    /\ NumCommits = 1
    /\ Cardinality({i \in 1..Len(Handled) : IsComplete(Handled[i])}) = 2
    /\ audio_chunks_received = 0

(***************************************************************************)
(* C2: as many appends are sent upstream as audio_chunk frames were        *)
(* handled, and as many commits as audio_complete frames that close an     *)
(* utterance of at least one chunk: one commit per such utterance, none    *)
(* for an audio_complete with no chunk pending, utterance after utterance. *)
(***************************************************************************)
C2_SendsAndCommitsMatchFrames ==
    /\ NumAppends = Cardinality({i \in 1..Len(Handled) : IsChunk(Handled[i])})
    /\ NumCommits = Cardinality({i \in 1..Len(Handled) : ClosesUtterance(i)})
    /\ \A i \in 1..Len(Handled) :
          (i = Len(Handled) /\ ClosesUtterance(i))
             => IsCommit(upstreamSent[Len(upstreamSent)])

\* Two utterances, each of one chunk, each committed.
C2_Witness ==
    /\ Len(Handled) = 4
    /\ IsChunk(Handled[1]) /\ IsComplete(Handled[2])
    /\ IsChunk(Handled[3]) /\ IsComplete(Handled[4])
    /\ NumAppends = 2
    /\ NumCommits = 2

(***************************************************************************)
(* C3: the upstream socket carries, after session.update, exactly the      *)
(* handled client frames in arrival order: each audio_chunk as one append  *)
(* of its decoded bytes, each utterance-closing audio_complete as one      *)
(* commit; nothing re-ordered, duplicated, dropped or merged.              *)
(***************************************************************************)
RECURSIVE ExpectedCalls(_, _)
\* The upstream calls the first n handled frames ask for, in order.
ExpectedCalls(frames, n) ==
    IF n = 0 THEN <<>>
    ELSE LET f == frames[n]
             before == ExpectedCalls(frames, n - 1)
         IN  CASE IsChunk(f) ->
                     Append(before, [op |-> "append", bytes |-> b64decode(f.data)])
               [] IsComplete(f) /\ ClosesUtterance(n) ->
                     Append(before, [op |-> "commit", bytes |-> <<>>])
               [] OTHER -> before

\* The calls the upstream socket received after session.update, the audio
\* of an append decoded as the backend decodes it.
ReceivedCalls ==
    [i \in 1..(Len(upstreamSent) - 1) |->
        LET m == upstreamSent[i + 1]
        IN  IF IsAppend(m) THEN [op |-> "append", bytes |-> b64decode(m.audio)]
            ELSE IF IsCommit(m) THEN [op |-> "commit", bytes |-> <<>>]
            ELSE [op |-> m.type, bytes |-> <<>>]]

C3_UpstreamOrderPreserved ==
    upstreamSent # <<>> =>
        /\ upstreamSent[1].type = "session.update"
        /\ ReceivedCalls = ExpectedCalls(Handled, Len(Handled))

\* audio_chunk(A), audio_chunk(B), audio_complete: A, then B, then the commit.
C3_Witness ==
    /\ Len(Handled) = 3
    /\ Handled[1].data = B64_A /\ IsChunk(Handled[1])
    /\ Handled[2].data = B64_B /\ IsChunk(Handled[2])
    /\ IsComplete(Handled[3])
    /\ ReceivedCalls = << [op |-> "append", bytes |-> <<65>>],
                          [op |-> "append", bytes |-> <<66>>],
                          [op |-> "commit", bytes |-> <<>>] >>

(***************************************************************************)
(* C4: once either pipeline has returned, the session goes on to its       *)
(* teardown by itself: service.disconnect() is eventually called, with no  *)
(* further frame or close needed from either peer.  Stated under FairSpec, *)
(* where the relay's own steps are fair and the peers' are not.            *)
(***************************************************************************)
C4_TeardownOnceEitherPipelineEnds ==
    (hcPc = "done" \/ hoPc = "done") ~> (disconnectCalls > 0)

(***************************************************************************)
(* C5: service.disconnect() is called at most once in a session, and a     *)
(* session has ended exactly when it has been called once; the upstream    *)
(* socket is closed by the relay at most once.                             *)
(***************************************************************************)
C5_DisconnectExactlyOnce ==
    /\ disconnectCalls <= 1
    /\ closeCalls <= 1
    /\ (pc = "done") <=> (disconnectCalls = 1)

\* A session that ended after a fault in the client pipeline and a failed
\* write in the forwarding pipeline.
C5_Witness ==
    /\ pc = "done"
    /\ hcExit = "error"
    /\ hoExit = "write_failed"
    /\ disconnectCalls = 1

(***************************************************************************)
(* C6: after connect() returned False neither pipeline is ever started,    *)
(* nothing is sent upstream, no upstream frame is read or forwarded, and   *)
(* the client is sent the one connect-error envelope and then closed; the  *)
(* envelope is missing only when the client had closed its socket first.   *)
(***************************************************************************)
C6_ConnectFailureReported ==
    success = "False" =>
        /\ pc # "gather" /\ hcPc = "init" /\ hoPc = "init"
        /\ upstreamSent = <<>>
        /\ clientIn = <<>> /\ upIn = <<>> /\ yielded = <<>>
        /\ \/ clientOut = <<>>
           \/ clientOut = << ConnectErrorEnvelope >>
        /\ clientSock = "relay_closed" => clientOut = << ConnectErrorEnvelope >>
        /\ pc \in {"finally", "done"} =>
              /\ clientSock # "open"
              /\ clientOut = <<>> => clientSock = "peer_closed"

\* The session of a failed connect has ended: one error envelope written,
\* the client socket closed by the relay.
C6_Witness ==
    /\ success = "False"
    /\ pc = "done"
    /\ clientOut = << ConnectErrorEnvelope >>
    /\ clientSock = "relay_closed"

(***************************************************************************)
(* C7: the envelopes written to the client are the envelopes               *)
(* listen_for_events yielded, one for one and in the same order; when a    *)
(* write failed, all but the last yielded one.                             *)
(***************************************************************************)
C7_YieldedForwardedInOrder ==
    success = "True" =>
        IF hoExit = "write_failed"
        THEN clientOut = SubSeq(yielded, 1, Len(yielded) - 1)
        ELSE clientOut = yielded

\* Three upstream frames, the second yielding nothing: two envelopes of
\* different types written in the order yielded.
C7_Witness ==
    /\ Len(upIn) = 3
    /\ Len(yielded) = 2
    /\ clientOut = yielded
    /\ clientOut[1].type = "user_transcript"
    /\ clientOut[2].type = "audio_delta"

(***************************************************************************)
(* C8: a client frame that fails to decode (malformed JSON, invalid        *)
(* base64) never ends the client pipeline: handle_client does not return   *)
(* because of it.                                                          *)
(***************************************************************************)
DecodeFails(f) ==
    \/ f.json = "bad"
    \/ IsChunk(f) /\ b64decode(f.data) = B64Error

C8_DecodeFailureNonFatal ==
    \A i \in 1..Len(clientIn) :
        DecodeFails(clientIn[i]) =>
            ~(i = Len(clientIn) /\ hcPc = "done" /\ hcExit = "error")

(***************************************************************************)
(* C9: an upstream frame that fails to parse never ends the event          *)
(* sequence: listen_for_events is not exhausted because of it.             *)
(***************************************************************************)
C9_ParseFailureKeepsSequence ==
    \A i \in 1..Len(upIn) :
        upIn[i].json = "bad" =>
            ~(i = Len(upIn) /\ hoPc = "done" /\ hoExit = "parse_error")

(***************************************************************************)
(* C10: when a session that was active reaches its teardown after a fault  *)
(* ended one of its pipelines (a failed send_audio or commit_audio caught  *)
(* by handle_client, an abnormal upstream close caught by                  *)
(* listen_for_events) and the client socket is still open, an error        *)
(* envelope has been written to the client.                                *)
(***************************************************************************)
TransportFaultInClientPipeline ==
    hcExit = "error" /\ ~DecodeFails(clientIn[Len(clientIn)])

AbnormalUpstreamClose ==
    hoExit = "upstream_closed" /\ upSock = "closed_err"

C10_ErrorEnvelopeBeforeClosure ==
    ( /\ success = "True"
      /\ pc \in {"finally", "done"}
      /\ clientSock = "open"
      /\ TransportFaultInClientPipeline \/ AbnormalUpstreamClose )
    => \E i \in 1..Len(clientOut) : clientOut[i].type = "error"

(***************************************************************************)
(* C11: when the write of a yielded envelope fails because the client has  *)
(* closed its socket, handle_openai returns normally at once: that         *)
(* envelope is the last one yielded and nothing is written after it,       *)
(* nothing but negotiation, appends and commits has gone upstream, the     *)
(* relay can always take its next step towards teardown, and a session     *)
(* that has ended has called service.disconnect() exactly once.            *)
(***************************************************************************)
WriteFailed == success = "True" /\ Len(yielded) > Len(clientOut)

C11_FailedWriteAbsorbed ==
    WriteFailed =>
        /\ hoPc = "done"
        /\ clientSock # "open"
        /\ clientOut = SubSeq(yielded, 1, Len(yielded) - 1)
        /\ \A i \in 1..Len(upstreamSent) :
              upstreamSent[i].type \in {"session.update",
                                        "input_audio_buffer.append",
                                        "input_audio_buffer.commit"}
        /\ disconnectCalls <= 1
        /\ pc = "done" => disconnectCalls = 1
        /\ pc # "done" => ENABLED RelaySteps

\* The client closed while a response.output_audio.delta was in flight: the
\* audio_delta envelope was yielded and not written, and the session ended.
C11_Witness ==
    /\ WriteFailed
    /\ upIn # <<>>
    /\ upIn[Len(upIn)].type = "response.output_audio.delta"
    /\ yielded[Len(yielded)].type = "audio_delta"
    /\ hoExit = "write_failed"
    /\ pc = "done"
    /\ disconnectCalls = 1

(***************************************************************************)
(* The service object on its own: a caller that holds a RealtimeService    *)
(* and calls its methods in any order, any number of times (up to MaxCalls *)
(* sends and MaxCalls disconnects), while the upstream peer may close the  *)
(* socket.  pc = "service" marks these behaviours; the relay's coroutines  *)
(* never start in them.                                                    *)
(***************************************************************************)
relayVars == << clientSock, clientOut, clientPipeVars, openaiPipeVars >>

ServiceInit ==
    /\ pc = "service"
    /\ success = "unset"
    /\ ws = "none"
    /\ is_connected = FALSE
    /\ upSock = "unopened"
    /\ clientSock = "open"
    /\ hcPc = "init"
    /\ hoPc = "init"
    /\ hcExit = "none"
    /\ hoExit = "none"
    /\ audio_chunks_received = 0
    /\ clientIn = <<>>
    /\ upIn = <<>>
    /\ upstreamSent = <<>>
    /\ yielded = <<>>
    /\ clientOut = <<>>
    /\ closeCalls = 0
    /\ disconnectCalls = 0
    /\ raised = "none"
    /\ ChatIdle

\* connect() on a service that holds no handle and whose event generator,
\* if one was started, has ended: its except clause turns every failure
\* into `return False`.
SvcConnectOpenFails ==
    /\ pc = "service"
    /\ ws = "none"
    /\ hoPc # "recv"
    /\ is_connected' = FALSE
    /\ success' = "False"
    /\ raised' = "none"
    /\ UNCHANGED << pc, ws, upSock, upstreamSent, closeCalls, disconnectCalls >>
    /\ UNCHANGED relayVars
    /\ UNCHANGED chatVars

SvcConnectSendFails ==
    /\ pc = "service"
    /\ ws = "none"
    /\ hoPc # "recv"
    /\ ws' = "handle"
    /\ upSock' = "closed_err"
    /\ is_connected' = FALSE
    /\ success' = "False"
    /\ raised' = "none"
    /\ UNCHANGED << pc, upstreamSent, closeCalls, disconnectCalls >>
    /\ UNCHANGED relayVars
    /\ UNCHANGED chatVars

SvcConnectSucceeds ==
    /\ pc = "service"
    /\ ws = "none"
    /\ hoPc # "recv"
    /\ Len(upstreamSent) < MaxCalls
    /\ ws' = "handle"
    /\ upSock' = "open"
    /\ upstreamSent' = WsSend(upstreamSent, SessionUpdate)
    /\ is_connected' = TRUE
    /\ success' = "True"
    /\ raised' = "none"
    /\ UNCHANGED << pc, closeCalls, disconnectCalls >>
    /\ UNCHANGED relayVars
    /\ UNCHANGED chatVars

\* The outcome of a method that sends one frame: RuntimeError("Not
\* connected") without a handle, the socket's ConnectionClosed when the
\* transport is closed.
SendOutcome == IF ws = "none" THEN "RuntimeError: Not connected"
               ELSE IF upSock # "open" THEN "ConnectionClosed"
               ELSE "none"

SvcSendAudio(audio_bytes) ==
    /\ pc = "service"
    /\ Len(upstreamSent) < MaxCalls
    /\ raised' = SendOutcome
    /\ upstreamSent' = IF SendOutcome = "none"
                       THEN WsSend(upstreamSent, AppendFrame(audio_bytes))
                       ELSE upstreamSent
    /\ UNCHANGED << pc, success, ws, is_connected, upSock, closeCalls,
                    disconnectCalls >>
    /\ UNCHANGED relayVars
    /\ UNCHANGED chatVars

SvcCommitAudio ==
    /\ pc = "service"
    /\ Len(upstreamSent) < MaxCalls
    /\ raised' = SendOutcome
    /\ upstreamSent' = IF SendOutcome = "none"
                       THEN WsSend(upstreamSent, CommitFrame)
                       ELSE upstreamSent
    /\ UNCHANGED << pc, success, ws, is_connected, upSock, closeCalls,
                    disconnectCalls >>
    /\ UNCHANGED relayVars
    /\ UNCHANGED chatVars

SvcCreateConversationItem(text) ==
    /\ pc = "service"
    /\ Len(upstreamSent) < MaxCalls
    /\ raised' = SendOutcome
    /\ upstreamSent' = IF SendOutcome = "none"
                       THEN WsSend(upstreamSent, ConversationItemFrame(text))
                       ELSE upstreamSent
    /\ UNCHANGED << pc, success, ws, is_connected, upSock, closeCalls,
                    disconnectCalls >>
    /\ UNCHANGED relayVars
    /\ UNCHANGED chatVars

\* A trigger_response without the `if not self.ws` test: None has no send.
SvcTriggerResponse_NoHandleTest ==
    /\ pc = "service"
    /\ Len(upstreamSent) < MaxCalls
    /\ raised' = IF ws = "none" THEN "AttributeError" ELSE SendOutcome
    /\ upstreamSent' = IF SendOutcome = "none"
                       THEN WsSend(upstreamSent, ResponseCreateFrame)
                       ELSE upstreamSent
    /\ UNCHANGED << pc, success, ws, is_connected, upSock, closeCalls,
                    disconnectCalls >>
    /\ UNCHANGED relayVars
    /\ UNCHANGED chatVars

SvcTriggerResponse ==
    /\ pc = "service"
    /\ Len(upstreamSent) < MaxCalls
    /\ raised' = SendOutcome
    /\ upstreamSent' = IF SendOutcome = "none"
                       THEN WsSend(upstreamSent, ResponseCreateFrame)
                       ELSE upstreamSent
    /\ UNCHANGED << pc, success, ws, is_connected, upSock, closeCalls,
                    disconnectCalls >>
    /\ UNCHANGED relayVars
    /\ UNCHANGED chatVars

\* The first iteration of `async for ... in service.listen_for_events()`:
\* RuntimeError("Not connected") without a handle; on a socket that is
\* already closed the iteration ends at once (after the error envelope of
\* the except clause when the close was abnormal); on an open socket the
\* generator awaits a frame.  The backend sends no frame in these
\* behaviours (ListenSpec has the frames).
SvcListen ==
    /\ pc = "service"
    /\ hoPc # "recv"
    /\ ws = "none" \/ Len(yielded) < MaxCalls
    /\ IF ws = "none"
       THEN /\ raised' = "RuntimeError: Not connected"
            /\ UNCHANGED << hoPc, hoExit, yielded >>
       ELSE /\ raised' = "none"
            /\ hoPc' = IF upSock = "open" THEN "recv" ELSE "done"
            /\ hoExit' = IF upSock = "open" THEN "none" ELSE "upstream_closed"
            /\ yielded' = IF upSock = "closed_err"
                          THEN Append(yielded, ListenErrorEnvelope(
                                          "no close frame received or sent"))
                          ELSE yielded
    /\ UNCHANGED << pc, success, ws, is_connected, upSock, closeCalls,
                    disconnectCalls, upstreamSent, upIn >>
    /\ UNCHANGED << clientSock, clientOut, clientPipeVars >>
    /\ UNCHANGED chatVars

\* The socket the generator awaits is closed, by the backend or by
\* disconnect(): the iteration ends as in ListenEndsOK and ListenEndsErr.
SvcListenEnds ==
    /\ pc = "service"
    /\ hoPc = "recv"
    /\ upSock # "open"
    /\ hoPc' = "done"
    /\ hoExit' = "upstream_closed"
    /\ yielded' = IF upSock = "closed_err"
                  THEN Append(yielded, ListenErrorEnvelope(
                                  "no close frame received or sent"))
                  ELSE yielded
    /\ UNCHANGED << pc, success, upSock, upstreamSent, upIn, serviceVars >>
    /\ UNCHANGED << clientSock, clientOut, clientPipeVars >>
    /\ UNCHANGED chatVars

SvcDisconnect ==
    /\ pc = "service"
    /\ disconnectCalls < MaxCalls
    /\ disconnect
    /\ UNCHANGED << pc, success, upstreamSent >>
    /\ UNCHANGED relayVars
    /\ UNCHANGED chatVars

SvcUpstreamCloses(how) ==
    /\ pc = "service"
    /\ upSock = "open"
    /\ upSock' = how
    /\ UNCHANGED << pc, success, upstreamSent, serviceVars >>
    /\ UNCHANGED relayVars
    /\ UNCHANGED chatVars

ServiceNext ==
    \/ SvcConnectOpenFails
    \/ SvcConnectSendFails
    \/ SvcConnectSucceeds
    \/ \E b \in {B64_A, B64_B} : SvcSendAudio(b64decode(b))
    \/ SvcCommitAudio
    \/ \E text \in {"hello"} : SvcCreateConversationItem(text)
    \/ SvcTriggerResponse
    \/ SvcListen
    \/ SvcListenEnds
    \/ SvcDisconnect
    \/ \E how \in {"closed_ok", "closed_err"} : SvcUpstreamCloses(how)

ServiceSpec == ServiceInit /\ [][ServiceNext]_vars

(***************************************************************************)
(* listen_for_events on its own: a connected service whose generator is    *)
(* iterated by a consumer that takes every envelope, over every sequence   *)
(* of up to MaxEvents frames of AllUpstreamFrames, until the generator     *)
(* ends or the backend closes the socket.  pc = "listen" marks these       *)
(* behaviours.                                                             *)
(***************************************************************************)
listenFrame == << pc, success, clientSock, clientOut, clientPipeVars,
                  serviceVars, upstreamSent >>

ListenInit ==
    /\ pc = "listen"
    /\ success = "True"
    /\ ws = "handle"
    /\ is_connected = TRUE
    /\ upSock = "open"
    /\ clientSock = "open"
    /\ hcPc = "init"
    /\ hoPc = "recv"
    /\ hcExit = "none"
    /\ hoExit = "none"
    /\ audio_chunks_received = 0
    /\ clientIn = <<>>
    /\ upIn = <<>>
    /\ upstreamSent = << SessionUpdate >>
    /\ yielded = <<>>
    /\ clientOut = <<>>
    /\ closeCalls = 0
    /\ disconnectCalls = 0
    /\ raised = "none"
    /\ ChatIdle

\* One iteration of `async for message in self.ws`.
ListenFrame(f) ==
    /\ pc = "listen"
    /\ hoPc = "recv"
    /\ upSock = "open"
    /\ Len(upIn) < MaxEvents
    /\ upIn' = Append(upIn, f)
    /\ yielded' = yielded \o Yields(f)
    /\ hoPc' = IF GeneratorEndsAfter(f) # "no" THEN "done" ELSE "recv"
    /\ hoExit' = IF GeneratorEndsAfter(f) # "no" THEN GeneratorEndsAfter(f)
                 ELSE hoExit
    /\ UNCHANGED upSock
    /\ UNCHANGED listenFrame
    /\ UNCHANGED chatVars

ListenUpstreamCloses(how) ==
    /\ pc = "listen"
    /\ upSock = "open"
    /\ upSock' = how
    /\ UNCHANGED openaiPipeVars
    /\ UNCHANGED listenFrame
    /\ UNCHANGED chatVars

\* Normal close: the iteration ends and the generator returns.
ListenEndsOK ==
    /\ pc = "listen"
    /\ hoPc = "recv"
    /\ upSock = "closed_ok"
    /\ hoPc' = "done"
    /\ hoExit' = "upstream_closed"
    /\ UNCHANGED << upIn, yielded, upSock >>
    /\ UNCHANGED listenFrame
    /\ UNCHANGED chatVars

\* Abnormal close: the iteration raises into the except clause.
ListenEndsErr ==
    /\ pc = "listen"
    /\ hoPc = "recv"
    /\ upSock = "closed_err"
    /\ yielded' = Append(yielded,
                         ListenErrorEnvelope("no close frame received or sent"))
    /\ hoPc' = "done"
    /\ hoExit' = "upstream_closed"
    /\ UNCHANGED << upIn, upSock >>
    /\ UNCHANGED listenFrame
    /\ UNCHANGED chatVars

ListenNext ==
    \/ \E f \in AllUpstreamFrames : ListenFrame(f)
    \/ \E how \in {"closed_ok", "closed_err"} : ListenUpstreamCloses(how)
    \/ ListenEndsOK
    \/ ListenEndsErr

ListenSpec == ListenInit /\ [][ListenNext]_vars

(***************************************************************************)
(* The chat router (routers/chat.py): POST /chat and POST /chat/stream,    *)
(* handled one request after the other, with an agent that answers,        *)
(* raises, or is not initialised.  pc = "chat" marks these behaviours; the *)
(* relay and the service object do not move in them.                       *)
(***************************************************************************)
\* ChatRequest.thread_id is `str | None`; None is written "<None>".
NoThreadId == "<None>"

\* uuid.uuid4(): the n-th call returns the n-th of these, all different and
\* different from every id a client invents.
FreshIds == << "uuid-1", "uuid-2", "uuid-3", "uuid-4", "uuid-5" >>
uuid4 == FreshIds[uuidCalls + 1]

\* Python truth of a thread_id: None and "" are false.
Truthy(tid) == tid \notin {NoThreadId, ""}

\* A handler that generates a new thread for every request.
ThreadIdFor_AlwaysFresh(tid, fresh) == fresh

\* thread_id = request.thread_id or str(uuid.uuid4())
ThreadIdFor(tid, fresh) == IF Truthy(tid) THEN tid ELSE fresh

\* The thread ids a client sends: none, the empty string, one of its own,
\* or one a response gave it.
SentThreadIds ==
    {NoThreadId, "", "t1"} \cup
    {log[i].returned : i \in {j \in 1..Len(log) : log[j].status = 200}}

\* response["messages"] of agent.invoke; type and role are "none" where the
\* message has no such attribute.
InvokeResults ==
    { << [type |-> "human", role |-> "none", content |-> "hi"],
         [type |-> "ai", role |-> "none", content |-> "Hello!"] >>,
      << [type |-> "human", role |-> "none", content |-> "weather?"],
         [type |-> "ai", role |-> "none", content |-> "Sunny!"],
         [type |-> "ai", role |-> "none", content |-> ""] >>,
      << [type |-> "none", role |-> "assistant", content |-> "Hey"],
         [type |-> "tool", role |-> "none", content |-> "Florida"] >>,
      << [type |-> "human", role |-> "none", content |-> "hi"] >> }

RECURSIVE LastAiContent(_, _)
\* chat: `for msg in reversed(messages)`, the first with AI content.
LastAiContent(messages, n) ==
    IF n = 0 THEN ""
    ELSE LET msg == messages[n]
         IN  IF msg.type = "ai" /\ msg.content # "" THEN msg.content
             ELSE IF msg.role = "assistant" /\ msg.content # "" THEN msg.content
             ELSE LastAiContent(messages, n - 1)

\* Message contents of agent.stream, as sequences of characters.
StreamMessages ==
    { [type |-> "AIMessageChunk", role |-> "none", content |-> <<"H", "i">>],
      [type |-> "AIMessageChunk", role |-> "none", content |-> <<"a", "\n", "b">>],
      [type |-> "AIMessageChunk", role |-> "none", content |-> <<>>],
      [type |-> "tool", role |-> "none", content |-> <<"S", "F">>],
      [type |-> "none", role |-> "assistant", content |-> <<"\"">>] }

RECURSIVE JsonEscape(_)
JsonEscape(chars) ==
    IF chars = <<>> THEN <<>>
    ELSE (CASE chars[1] = "\n" -> << "\\", "n" >>
            [] chars[1] = "\"" -> << "\\", "\"" >>
            [] chars[1] = "\\" -> << "\\", "\\" >>
            [] OTHER -> << chars[1] >>) \o JsonEscape(Tail(chars))

\* json.dumps of a string.
json_dumps(chars) == << "\"" >> \o JsonEscape(chars) \o << "\"" >>

\* What generate() yields: "data: " + payload + "\n\n".
SseRecord(payload) == << "data: ", payload, "\n\n" >>
ThinkingRecord == SseRecord(<< "[ACTION]thinking[/ACTION]" >>)
TextRecord(content) == SseRecord(<< "[TEXT]", json_dumps(content), "[/TEXT]" >>)
DoneRecord == SseRecord(<< "[DONE]" >>)
ErrorRecord(e) == SseRecord(<< "[ERROR: ", e, "]" >>)

\* generate(): the test under which a streamed message is sent on.
IsStreamedText(msg) ==
    /\ msg.content # <<>>
    /\ \/ msg.type \in {"AIMessageChunk", "ai"}
       \/ msg.role = "assistant"

relayState == << pc, success, ws, is_connected, upSock, clientSock, hcPc, hoPc,
                 hcExit, hoExit, audio_chunks_received, clientIn, upIn,
                 upstreamSent, yielded, clientOut, closeCalls, disconnectCalls,
                 raised >>

ChatInit ==
    /\ pc = "chat"
    /\ success = "unset"
    /\ ws = "none"
    /\ is_connected = FALSE
    /\ upSock = "unopened"
    /\ clientSock = "open"
    /\ hcPc = "init"
    /\ hoPc = "init"
    /\ hcExit = "none"
    /\ hoExit = "none"
    /\ audio_chunks_received = 0
    /\ clientIn = <<>>
    /\ upIn = <<>>
    /\ upstreamSent = <<>>
    /\ yielded = <<>>
    /\ clientOut = <<>>
    /\ closeCalls = 0
    /\ disconnectCalls = 0
    /\ raised = "none"
    /\ ChatIdle

\* get_agent() raises HTTPException(503) before anything else is done.
ChatAgentMissing(endpoint, tid) ==
    /\ pc = "chat"
    /\ chatPc = "idle"
    /\ Len(log) < MaxRequests
    /\ request' = [endpoint |-> endpoint, thread_id |-> tid, message |-> "hi"]
    /\ log' = Append(log, [endpoint |-> endpoint, sent |-> tid,
                           used |-> NoThreadId, status |-> 503,
                           returned |-> NoThreadId,
                           body |-> "Agent not initialized"])
    /\ UNCHANGED << chatPc, uuidCalls, sse, streamed, agentOutcome >>
    /\ UNCHANGED relayState

\* POST /chat, agent.invoke returning messages.
Chat(tid, messages) ==
    /\ pc = "chat"
    /\ chatPc = "idle"
    /\ Len(log) < MaxRequests
    /\ request' = [endpoint |-> "chat", thread_id |-> tid, message |-> "hi"]
    /\ uuidCalls' = IF Truthy(tid) THEN uuidCalls ELSE uuidCalls + 1
    /\ LET thread_id == ThreadIdFor(tid, uuid4)
       IN  log' = Append(log, [endpoint |-> "chat", sent |-> tid,
                               used |-> thread_id, status |-> 200,
                               returned |-> thread_id,
                               body |-> LastAiContent(messages, Len(messages))])
    /\ UNCHANGED << chatPc, sse, streamed, agentOutcome >>
    /\ UNCHANGED relayState

\* POST /chat, agent.invoke raising: HTTPException(500).
ChatAgentRaises(tid) ==
    /\ pc = "chat"
    /\ chatPc = "idle"
    /\ Len(log) < MaxRequests
    /\ request' = [endpoint |-> "chat", thread_id |-> tid, message |-> "hi"]
    /\ uuidCalls' = IF Truthy(tid) THEN uuidCalls ELSE uuidCalls + 1
    /\ LET thread_id == ThreadIdFor(tid, uuid4)
       IN  log' = Append(log, [endpoint |-> "chat", sent |-> tid,
                               used |-> thread_id, status |-> 500,
                               returned |-> NoThreadId,
                               body |-> "Agent error: boom"])
    /\ UNCHANGED << chatPc, sse, streamed, agentOutcome >>
    /\ UNCHANGED relayState

\* POST /chat/stream: the handler returns the StreamingResponse with its
\* X-Thread-ID header; generate() has not run yet.
ChatStream(tid) ==
    /\ pc = "chat"
    /\ chatPc = "idle"
    /\ Len(log) < MaxRequests
    /\ request' = [endpoint |-> "stream", thread_id |-> tid, message |-> "hi"]
    /\ uuidCalls' = IF Truthy(tid) THEN uuidCalls ELSE uuidCalls + 1
    /\ LET thread_id == ThreadIdFor(tid, uuid4)
       IN  log' = Append(log, [endpoint |-> "stream", sent |-> tid,
                               used |-> thread_id, status |-> 200,
                               returned |-> thread_id, body |-> ""])
    /\ chatPc' = "start"
    /\ sse' = <<>>
    /\ streamed' = <<>>
    /\ agentOutcome' = "none"
    /\ UNCHANGED relayState

\* generate(): the first yield, before agent.stream is called.
GenerateThinking ==
    /\ pc = "chat"
    /\ chatPc = "start"
    /\ sse' = Append(sse, ThinkingRecord)
    /\ chatPc' = "stream"
    /\ agentOutcome' = "running"
    /\ UNCHANGED << request, uuidCalls, log, streamed >>
    /\ UNCHANGED relayState

\* generate(): one iteration of `for msg, metadata in agent.stream(...)`.
GenerateMessage(msg) ==
    /\ pc = "chat"
    /\ chatPc = "stream"
    /\ Len(streamed) < MaxChunks
    /\ streamed' = Append(streamed, msg)
    /\ sse' = IF IsStreamedText(msg)
              THEN Append(sse, TextRecord(msg.content))
              ELSE sse
    /\ UNCHANGED << chatPc, request, uuidCalls, log, agentOutcome >>
    /\ UNCHANGED relayState

\* agent.stream is exhausted: the yield after the loop.
GenerateDone ==
    /\ pc = "chat"
    /\ chatPc = "stream"
    /\ sse' = Append(sse, DoneRecord)
    /\ chatPc' = "idle"
    /\ agentOutcome' = "completed"
    /\ UNCHANGED << request, uuidCalls, log, streamed >>
    /\ UNCHANGED relayState

\* An except clause that reports the error and then falls through to the
\* closing yield.
GenerateError_ThenDone ==
    /\ pc = "chat"
    /\ chatPc = "stream"
    /\ sse' = sse \o << ErrorRecord("boom"), DoneRecord >>
    /\ chatPc' = "idle"
    /\ agentOutcome' = "raised"
    /\ UNCHANGED << request, uuidCalls, log, streamed >>
    /\ UNCHANGED relayState

\* agent.stream raises (at its call or at any iteration): the except clause.
GenerateError ==
    /\ pc = "chat"
    /\ chatPc = "stream"
    /\ sse' = Append(sse, ErrorRecord("boom"))
    /\ chatPc' = "idle"
    /\ agentOutcome' = "raised"
    /\ UNCHANGED << request, uuidCalls, log, streamed >>
    /\ UNCHANGED relayState

ChatNext ==
    \/ \E e \in {"chat", "stream"}, tid \in SentThreadIds : ChatAgentMissing(e, tid)
    \/ \E tid \in SentThreadIds, messages \in InvokeResults : Chat(tid, messages)
    \/ \E tid \in SentThreadIds : ChatAgentRaises(tid)
    \/ \E tid \in SentThreadIds : ChatStream(tid)
    \/ GenerateThinking
    \/ \E msg \in StreamMessages : GenerateMessage(msg)
    \/ GenerateDone
    \/ GenerateError

ChatSpec == ChatInit /\ [][ChatNext]_vars

(***************************************************************************)
(* Vocabulary of the event-translation properties: the client-facing       *)
(* envelope type of each upstream wire-event name ("" for a name that      *)
(* produces no envelope), as the interface table lists them.               *)
(***************************************************************************)
RecognisedNames ==
    { "session.created", "session.updated",
      "conversation.item.input_audio_transcription.completed",
      "response.output_audio_transcript.delta",
      "response.output_audio_transcript.done",
      "response.output_audio.delta", "response.output_audio.done",
      "response.done", "conversation.item.truncated",
      "input_audio_buffer.speech_started", "error" }

EnvelopeTypeOf(name) ==
    CASE name = "session.created" -> "connection_established"
      [] name = "conversation.item.input_audio_transcription.completed" ->
            "user_transcript"
      [] name = "response.output_audio_transcript.delta" -> "agent_transcript_delta"
      [] name = "response.output_audio_transcript.done" ->
            "agent_transcript_complete"
      [] name = "response.output_audio.delta" -> "audio_delta"
      [] name = "response.output_audio.done" -> "audio_complete"
      [] name = "response.done" -> "response_complete"
      [] name = "conversation.item.truncated" -> "interruption"
      [] name = "input_audio_buffer.speech_started" -> "speech_started"
      [] name = "error" -> "error"
      [] OTHER -> ""

Unrecognised(f) == f.json = "object" /\ f.type \notin RecognisedNames

RECURSIVE ExpectedTypes(_, _)
\* The envelope types the first n upstream frames produce, in order.
ExpectedTypes(frames, n) ==
    IF n = 0 THEN <<>>
    ELSE LET f == frames[n]
             before == ExpectedTypes(frames, n - 1)
         IN  CASE f.json = "bad" -> Append(before, "error")
               [] f.type = "response.output_audio.delta" /\ f.text = "" -> before
               [] EnvelopeTypeOf(f.type) # "" ->
                     Append(before, EnvelopeTypeOf(f.type))
               [] OTHER -> before

\* The position, among the yielded envelopes, of the envelope of frame i.
EnvIndex(i) == Len(ExpectedTypes(upIn, i))

YieldedTypes == [i \in 1..Len(yielded) |-> yielded[i].type]

\* The step in which listen_for_events reads one more frame.
ReadsFrame == Len(upIn') = Len(upIn) + 1
FrameRead == upIn'[Len(upIn')]

(***************************************************************************)
(* C12: an upstream frame with an unrecognised event name yields no        *)
(* envelope and does not end the iteration: the yielded envelope types are *)
(* those of the recognised frames in order (followed at most by the error  *)
(* of an abnormal close), all of them written while writes succeed, and    *)
(* after such a frame handle_openai returns only on a transport close.     *)
(***************************************************************************)
C12_UnknownEventSkipped ==
    LET expected == ExpectedTypes(upIn, Len(upIn)) IN
    /\ \/ YieldedTypes = expected
       \/ /\ YieldedTypes = Append(expected, "error")
          /\ upSock = "closed_err"
          /\ hoPc = "done"
    /\ (success = "True" /\ ~WriteFailed) => Len(clientOut) = Len(yielded)
    /\ \A i \in 1..Len(upIn) :
          (Unrecognised(upIn[i]) /\ i = Len(upIn) /\ hoPc = "done")
             => upSock \in {"closed_ok", "closed_err"}

\* An unrecognised frame, then session.created: one envelope, written.
C12_Witness ==
    /\ Len(upIn) = 2
    /\ Unrecognised(upIn[1])
    /\ upIn[2].type = "session.created"
    /\ Len(clientOut) = 1
    /\ clientOut[1].type = "connection_established"

(***************************************************************************)
(* C13: the step that reads an upstream error event writes its error       *)
(* envelope to the client (when the client socket is open) and leaves the  *)
(* session as it was: websocket_endpoint still in gather, handle_client    *)
(* untouched, handle_openai awaiting the next frame.  The envelope of an   *)
(* error event stands at its place among the yielded ones, so the events   *)
(* read after it are translated like those before it.                      *)
(***************************************************************************)
IsErrorEvent(f) == f.json = "object" /\ f.type = "error"

C13_ErrorEventForwarded ==
    /\ [][ (ReadsFrame /\ IsErrorEvent(FrameRead)) =>
             /\ pc' = pc /\ hcPc' = hcPc /\ hcExit' = hcExit
             /\ upstreamSent' = upstreamSent
             /\ yielded' = Append(yielded, [type |-> "error",
                                            message |-> FrameRead.text])
             /\ clientSock = "open" =>
                   /\ clientOut' = Append(clientOut, [type |-> "error",
                                                      message |-> FrameRead.text])
                   /\ hoPc' = "recv" ]_vars
    /\ [](\A i \in 1..Len(upIn) :
             IsErrorEvent(upIn[i]) =>
                /\ yielded[EnvIndex(i)].type = "error"
                /\ Len(yielded) >= Len(ExpectedTypes(upIn, Len(upIn))))

\* An error event, then a transcript: both written, both pipelines running.
C13_Witness ==
    /\ Len(upIn) = 2
    /\ IsErrorEvent(upIn[1])
    /\ clientOut = << [type |-> "error", message |-> "boom"],
                      [type |-> "user_transcript", text |-> "hello"] >>
    /\ pc = "gather" /\ hcPc = "recv" /\ hoPc = "recv"

(***************************************************************************)
(* C14: the step that reads conversation.item.truncated writes             *)
(* {type: interruption, message: "User interrupted AI"}, the step that     *)
(* reads input_audio_buffer.speech_started writes {type: speech_started};  *)
(* both leave the session running as it was, and a later non-empty         *)
(* response.output_audio.delta is still written as audio_delta.            *)
(***************************************************************************)
Written(envelope) ==
    /\ yielded' = Append(yielded, envelope)
    /\ clientSock = "open" =>
          /\ clientOut' = Append(clientOut, envelope)
          /\ hoPc' = "recv"

SessionUntouched ==
    /\ pc' = pc /\ hcPc' = hcPc /\ hcExit' = hcExit
    /\ upstreamSent' = upstreamSent
    /\ disconnectCalls' = disconnectCalls

C14_BargeInForwarded ==
    [][ (ReadsFrame /\ FrameRead.json = "object") =>
          /\ FrameRead.type = "conversation.item.truncated" =>
                /\ Written([type |-> "interruption",
                            message |-> "User interrupted AI"])
                /\ SessionUntouched
          /\ FrameRead.type = "input_audio_buffer.speech_started" =>
                /\ Written([type |-> "speech_started"])
                /\ SessionUntouched
          /\ (FrameRead.type = "response.output_audio.delta"
                /\ FrameRead.text # "") =>
                Written([type |-> "audio_delta", audio |-> FrameRead.text]) ]_vars

\* speech_started, truncated, then audio: three envelopes, session running.
C14_Witness ==
    /\ Len(upIn) = 3
    /\ upIn[1].type = "input_audio_buffer.speech_started"
    /\ upIn[2].type = "conversation.item.truncated"
    /\ clientOut = << [type |-> "speech_started"],
                      [type |-> "interruption", message |-> "User interrupted AI"],
                      [type |-> "audio_delta", audio |-> "QUJD"] >>
    /\ pc = "gather" /\ hcPc = "recv" /\ hoPc = "recv"

(***************************************************************************)
(* C15: disconnect() is idempotent.  Whatever the service holds (a live    *)
(* socket, a socket whose negotiation failed, a socket the peer closed, or *)
(* nothing), a call returns without raising, calls ws.close() at most      *)
(* once, and then only if there was a handle, and leaves ws = None and     *)
(* is_connected = False; on a disconnected service it changes nothing, so  *)
(* a socket is never closed by two calls.                                  *)
(***************************************************************************)
DisconnectCalled == disconnectCalls' = disconnectCalls + 1

C15_DisconnectIdempotent ==
    /\ [][ DisconnectCalled =>
             /\ raised' = "none"
             /\ ws' = "none"
             /\ is_connected' = FALSE
             /\ closeCalls' \in {closeCalls, closeCalls + 1}
             /\ (ws = "none") =>
                   /\ closeCalls' = closeCalls
                   /\ upSock' = upSock
                   /\ is_connected' = is_connected
             /\ upSock' # "open"
             /\ upstreamSent' = upstreamSent /\ success' = success ]_vars
    /\ [](ws = "none" => ~is_connected)
    /\ [](closeCalls <= disconnectCalls)

\* Three calls: on a connected service, and twice more after that.
C15_Witness ==
    /\ pc = "service"
    /\ disconnectCalls = 3
    /\ closeCalls = 1
    /\ success = "True"
    /\ upSock = "closed_local"
    /\ ws = "none" /\ ~is_connected
    /\ raised = "none"

(***************************************************************************)
(* Vocabulary of the counter properties: the appends written upstream      *)
(* since the last commit, read off the upstream socket.                    *)
(***************************************************************************)
LastCommitAt ==
    LET at == {i \in 1..Len(upstreamSent) : IsCommit(upstreamSent[i])}
    IN  IF at = {} THEN 0 ELSE CHOOSE i \in at : \A j \in at : j <= i

PendingAppends ==
    Cardinality({i \in (LastCommitAt + 1)..Len(upstreamSent) :
                    IsAppend(upstreamSent[i])})

\* The step in which handle_client receives one more frame.
ReceivesFrame == Len(clientIn') = Len(clientIn) + 1
FrameReceived == clientIn'[Len(clientIn')]

(***************************************************************************)
(* C16: the step that receives an audio_complete while no append has been  *)
(* written since the last commit sends nothing upstream, leaves the        *)
(* counter at 0, writes nothing to the client and leaves handle_client     *)
(* awaiting its next frame.                                                *)
(***************************************************************************)
C16_EmptyCompleteSkipped ==
    [][ (ReceivesFrame /\ IsComplete(FrameReceived) /\ PendingAppends = 0) =>
          /\ upstreamSent' = upstreamSent
          /\ audio_chunks_received = 0
          /\ audio_chunks_received' = 0
          /\ clientOut' = clientOut
          /\ hcPc' = "recv" /\ hcExit' = "none"
          /\ pc' = pc /\ hoPc' = hoPc ]_vars

\* An empty audio_complete, then a chunk and its audio_complete: one
\* append, one commit, handle_client still receiving.
C16_Witness ==
    /\ Len(clientIn) = 3
    /\ IsComplete(clientIn[1]) /\ IsChunk(clientIn[2]) /\ IsComplete(clientIn[3])
    /\ NumAppends = 1 /\ NumCommits = 1
    /\ IsCommit(upstreamSent[Len(upstreamSent)])
    /\ audio_chunks_received = 0
    /\ clientOut = <<>>
    /\ hcPc = "recv" /\ pc = "gather"

(***************************************************************************)
(* C17: connect() has returned True only with the socket opened and        *)
(* session.update written on it, and the step in which it returns True     *)
(* reads nothing from upstream; when it returned False (the open or the    *)
(* send failed) is_connected is false and nothing was written.             *)
(***************************************************************************)
C17_ConnectSuccessAfterNegotiation ==
    /\ [][ (success # "True" /\ success' = "True") =>
             /\ upstreamSent' = << SessionUpdate >>
             /\ upSock' = "open"
             /\ is_connected'
             /\ upIn' = <<>> /\ yielded' = <<>> ]_vars
    /\ [](success = "True" =>
             /\ upstreamSent # <<>>
             /\ upstreamSent[1] = SessionUpdate
             /\ upSock # "unopened")
    /\ [](success # "True" => ~is_connected /\ upstreamSent = <<>>)

\* connect() has returned True and nothing has been read from upstream.
C17_Witness ==
    /\ success = "True"
    /\ is_connected
    /\ upstreamSent = << SessionUpdate >>
    /\ upIn = <<>>
    /\ pc = "gather"

(***************************************************************************)
(* C18: session.update is the first frame written upstream and is written  *)
(* once: every other frame of the session is an append or a commit, and a  *)
(* session whose connect succeeded has written it.                         *)
(***************************************************************************)
C18_NegotiationOnceAndFirst ==
    /\ \A i \in 1..Len(upstreamSent) :
          (upstreamSent[i].type = "session.update") <=> (i = 1)
    /\ \A i \in 2..Len(upstreamSent) :
          IsAppend(upstreamSent[i]) \/ IsCommit(upstreamSent[i])
    /\ success = "True" => Len(upstreamSent) >= 1

\* A finished session that sent audio and committed it.
C18_Witness ==
    /\ pc = "done"
    /\ Len(upstreamSent) = 4
    /\ upstreamSent[1] = SessionUpdate
    /\ NumAppends = 2 /\ NumCommits = 1

(***************************************************************************)
(* C19: once disconnect() has been called in the finally clause, both      *)
(* coroutines have returned (or never started), the service holds no       *)
(* handle and the upstream socket is not open; no later step writes        *)
(* upstream, writes to the client, reads a frame or reconnects.            *)
(***************************************************************************)
C19_ClosedIsTerminal ==
    /\ [](disconnectCalls >= 1 =>
             /\ pc = "done"
             /\ hcPc \in {"init", "done"}
             /\ hoPc \in {"init", "done"}
             /\ ws = "none" /\ ~is_connected
             /\ upSock # "open")
    /\ [][ disconnectCalls >= 1 =>
             /\ upstreamSent' = upstreamSent
             /\ clientOut' = clientOut
             /\ clientIn' = clientIn /\ upIn' = upIn
             /\ ws' = "none" /\ ~is_connected' /\ success' = success
             /\ upSock' = upSock ]_vars

\* A session that relayed in both directions and was torn down.
C19_Witness ==
    /\ disconnectCalls = 1
    /\ success = "True"
    /\ NumAppends >= 1
    /\ Len(clientOut) >= 1
    /\ upSock = "closed_local"
    /\ closeCalls = 1

(***************************************************************************)
(* C20: audio_chunks_received always equals the appends written upstream   *)
(* since the last commit; a step of handle_openai leaves it unchanged, and *)
(* it changes only in a step of handle_client, by +1 together with one     *)
(* append or to 0 together with one commit.                                *)
(***************************************************************************)
OpenaiPipelineStep ==
    \/ upIn' # upIn
    \/ yielded' # yielded
    \/ hoPc = "recv" /\ hoPc' # hoPc

WritesUpstream(m) ==
    /\ Len(upstreamSent') = Len(upstreamSent) + 1
    /\ SubSeq(upstreamSent', 1, Len(upstreamSent)) = upstreamSent
    /\ upstreamSent'[Len(upstreamSent')].type = m

C20_CounterOwnedByClientPipeline ==
    /\ [](audio_chunks_received = PendingAppends)
    /\ [][ OpenaiPipelineStep =>
             audio_chunks_received' = audio_chunks_received ]_vars
    /\ [][ audio_chunks_received' # audio_chunks_received =>
             /\ ReceivesFrame
             /\ \/ /\ audio_chunks_received' = audio_chunks_received + 1
                   /\ IsChunk(FrameReceived)
                   /\ WritesUpstream("input_audio_buffer.append")
                \/ /\ audio_chunks_received' = 0
                   /\ IsComplete(FrameReceived)
                   /\ WritesUpstream("input_audio_buffer.commit") ]_vars
    /\ [][ WritesUpstream("input_audio_buffer.append") =>
             audio_chunks_received' = audio_chunks_received + 1 ]_vars

\* One committed chunk, one pending chunk, and an upstream frame relayed.
C20_Witness ==
    /\ audio_chunks_received = 1
    /\ NumCommits = 1 /\ NumAppends = 2
    /\ Len(upIn) = 1 /\ Len(clientOut) = 1
    /\ hcPc = "recv" /\ hoPc = "recv"

(***************************************************************************)
(* C21: the two pipelines are independent under every interleaving.  While *)
(* handle_client is running, the append/commit calls made upstream are     *)
(* those of the client frames received, in arrival order, whatever has     *)
(* been read from upstream meanwhile; while handle_openai is running, the  *)
(* envelope types written to the client are those of the upstream frames   *)
(* read, in arrival order, whatever the client has sent meanwhile.  A step *)
(* of one pipeline changes nothing the other pipeline reads or writes.     *)
(***************************************************************************)
ClientOutTypes == [i \in 1..Len(clientOut) |-> clientOut[i].type]

C21_PipelinesIndependent ==
    /\ [](hcPc = "recv" =>
             ReceivedCalls = ExpectedCalls(clientIn, Len(clientIn)))
    /\ [](hoPc = "recv" =>
             ClientOutTypes = ExpectedTypes(upIn, Len(upIn)))
    /\ [][ ReceivesFrame =>
             /\ clientOut' = clientOut
             /\ UNCHANGED openaiPipeVars ]_vars
    /\ [][ ReadsFrame =>
             /\ upstreamSent' = upstreamSent
             /\ UNCHANGED clientPipeVars ]_vars

\* Two client frames and two upstream frames relayed, both pipelines
\* running: one append and its commit upstream, two envelopes downstream.
C21_Witness ==
    /\ hcPc = "recv" /\ hoPc = "recv"
    /\ Len(clientIn) = 2 /\ Len(upIn) = 2
    /\ IsChunk(clientIn[1]) /\ IsComplete(clientIn[2])
    /\ ReceivedCalls = << [op |-> "append", bytes |-> <<65>>],
                          [op |-> "commit", bytes |-> <<>>] >>
    /\ ClientOutTypes = << "interruption", "audio_delta" >>

(***************************************************************************)
(* C22: a close of the upstream socket by the backend ends the event       *)
(* sequence.  With the socket closed no further frame is read; the only    *)
(* envelope yielded after the close is the one error envelope of an        *)
(* abnormal close, and the step that yields it ends handle_openai; a       *)
(* normal close yields nothing; and handle_openai, awaiting a frame when   *)
(* the socket closes, returns.                                             *)
(***************************************************************************)
UpstreamClosedByPeer == upSock \in {"closed_ok", "closed_err"}

C22_UpstreamCloseEndsEvents ==
    /\ [][ UpstreamClosedByPeer =>
             /\ upIn' = upIn
             /\ yielded' # yielded =>
                   /\ upSock = "closed_err"
                   /\ Len(yielded') = Len(yielded) + 1
                   /\ yielded'[Len(yielded')].type = "error"
                   /\ hoPc' = "done"
             /\ hoPc' \in {hoPc, "done"} ]_vars
    /\ []((UpstreamClosedByPeer /\ hoPc = "done" /\ hoExit = "upstream_closed")
             => Len(yielded) = Len(ExpectedTypes(upIn, Len(upIn)))
                               + (IF upSock = "closed_err" THEN 1 ELSE 0))
    /\ (UpstreamClosedByPeer /\ hoPc = "recv") ~> (hoPc = "done")

\* An abnormal close after one relayed frame: the frame's envelope, then
\* the error envelope of the close, and handle_openai has returned.
C22_Witness ==
    /\ upSock = "closed_err"
    /\ hoPc = "done" /\ hoExit = "upstream_closed"
    /\ Len(upIn) = 1
    /\ Len(yielded) = 2
    /\ yielded[1].type = "user_transcript"
    /\ yielded[2].type = "error"
    /\ clientOut = yielded

(***************************************************************************)
(* C23: after a successful connect, disconnect() is called only when both  *)
(* handle_client and handle_openai have returned; as long as either is     *)
(* running the service keeps its handle and ws.close() has not been        *)
(* called, so the socket is never closed by the relay under a running      *)
(* pipeline.                                                               *)
(***************************************************************************)
PipelineRunning == hcPc = "recv" \/ hoPc = "recv"

C23_TeardownAfterBothPipelines ==
    /\ [][ (DisconnectCalled /\ success = "True") =>
             /\ hcPc = "done" /\ hoPc = "done"
             /\ hcPc' = "done" /\ hoPc' = "done" ]_vars
    /\ [](PipelineRunning =>
             /\ ws = "handle"
             /\ closeCalls = 0 /\ disconnectCalls = 0
             /\ upSock # "closed_local")

\* Teardown of a session in which handle_client ended on the browser's
\* disconnect and handle_openai on the backend's close.
C23_Witness ==
    /\ success = "True"
    /\ disconnectCalls = 1 /\ closeCalls = 1
    /\ hcPc = "done" /\ hcExit = "disconnect"
    /\ hoPc = "done" /\ hoExit = "upstream_closed"
    /\ NumAppends >= 1 /\ Len(clientOut) >= 1

(***************************************************************************)
(* C24: event translation is a fixed lookup from the wire-event name to    *)
(* the envelope type.  Whatever was read before, the step that reads a     *)
(* parsed frame yields the envelope of the type the table gives for its    *)
(* name (nothing for a name outside the table, for session.updated and     *)
(* for an audio delta without data), and no envelope yielded has a type    *)
(* outside the ten of the table.                                           *)
(***************************************************************************)
EnvelopeTypes ==
    { "connection_established", "user_transcript", "agent_transcript_delta",
      "agent_transcript_complete", "audio_delta", "audio_complete",
      "response_complete", "interruption", "speech_started", "error" }

YieldsNothing(f) ==
    \/ EnvelopeTypeOf(f.type) = ""
    \/ f.type = "response.output_audio.delta" /\ f.text = ""

C24_TranslationIsFixedLookup ==
    /\ [][ (ReadsFrame /\ FrameRead.json = "object") =>
             IF YieldsNothing(FrameRead)
             THEN yielded' = yielded
             ELSE /\ Len(yielded') = Len(yielded) + 1
                  /\ SubSeq(yielded', 1, Len(yielded)) = yielded
                  /\ yielded'[Len(yielded')].type
                        = EnvelopeTypeOf(FrameRead.type) ]_vars
    /\ [](\A i \in 1..Len(yielded) : yielded[i].type \in EnvelopeTypes)
    /\ [](hoPc = "recv" => YieldedTypes = ExpectedTypes(upIn, Len(upIn)))

\* The three completion events in a row, each with its own envelope type.
C24_Witness ==
    /\ pc = "listen"
    /\ Len(upIn) = 3
    /\ upIn[1].type = "response.output_audio_transcript.done"
    /\ upIn[2].type = "response.output_audio.done"
    /\ upIn[3].type = "response.done"
    /\ YieldedTypes = << "agent_transcript_complete", "audio_complete",
                         "response_complete" >>

(***************************************************************************)
(* C25: a frame read yields at most one envelope; session.updated, a       *)
(* response.output_audio.delta with an empty delta and an event of an      *)
(* unrecognised name yield none and leave the generator iterating.         *)
(***************************************************************************)
IsSilentFrame(f) ==
    /\ f.json = "object"
    /\ \/ f.type = "session.updated"
       \/ f.type = "response.output_audio.delta" /\ f.text = ""
       \/ f.type \notin RecognisedNames

C25_AtMostOneEnvelopePerFrame ==
    /\ [][ ReadsFrame =>
             /\ Len(yielded') \in {Len(yielded), Len(yielded) + 1}
             /\ SubSeq(yielded', 1, Len(yielded)) = yielded ]_vars
    /\ [][ (ReadsFrame /\ IsSilentFrame(FrameRead)) =>
             /\ yielded' = yielded
             /\ hoPc' = "recv" /\ hoExit' = "none" ]_vars

\* One frame of each silent kind read, nothing yielded, still iterating.
C25_Witness ==
    /\ pc = "listen"
    /\ Len(upIn) = 3
    /\ upIn[1].type = "session.updated"
    /\ upIn[2].type = "response.output_audio.delta" /\ upIn[2].text = ""
    /\ upIn[3].type = "rate_limits.updated"
    /\ yielded = <<>>
    /\ hoPc = "recv"

(***************************************************************************)
(* C26: on a service that holds no socket handle (never connected, a       *)
(* connect whose socket did not open, or after disconnect), each of        *)
(* send_audio, commit_audio, listen_for_events, create_conversation_item   *)
(* and trigger_response raises RuntimeError("Not connected"), writes       *)
(* nothing upstream and leaves the service as it was.                      *)
(***************************************************************************)
CallWithoutHandle ==
    /\ ws = "none"
    /\ \/ \E b \in {B64_A, B64_B} : SvcSendAudio(b64decode(b))
       \/ SvcCommitAudio
       \/ SvcListen
       \/ \E text \in {"hello"} : SvcCreateConversationItem(text)
       \/ SvcTriggerResponse

C26_NotConnectedWithoutHandle ==
    [][ CallWithoutHandle =>
          /\ raised' = "RuntimeError: Not connected"
          /\ upstreamSent' = upstreamSent
          /\ ws' = "none" /\ is_connected' = is_connected
          /\ upSock' = upSock
          /\ closeCalls' = closeCalls /\ disconnectCalls' = disconnectCalls
          /\ UNCHANGED << hoPc, hoExit, yielded, success >> ]_vars

\* A call rejected after connect and disconnect: nothing but the
\* negotiation frame was ever written.
C26_Witness ==
    /\ pc = "service"
    /\ ws = "none"
    /\ raised = "RuntimeError: Not connected"
    /\ success = "True"
    /\ disconnectCalls = 1
    /\ upSock = "closed_local"
    /\ upstreamSent = << SessionUpdate >>

(***************************************************************************)
(* C27: is_connected implies that a handle is held; a session whose        *)
(* connect opened the socket and failed to send the negotiation (handle    *)
(* held, is_connected false) goes on to its finally clause, whose          *)
(* disconnect closes that socket and drops the handle; and no session has  *)
(* ended with a handle held, an open socket, or an opened socket on which  *)
(* close() was not called.                                                 *)
(***************************************************************************)
NegotiationFailed == success = "False" /\ ws = "handle"

C27_NoSocketOutlivesSession ==
    /\ [](is_connected => ws = "handle")
    /\ [](NegotiationFailed => ~is_connected /\ upSock # "unopened")
    /\ [](pc = "done" =>
             /\ ws = "none" /\ ~is_connected
             /\ upSock # "open"
             /\ upSock # "unopened" => closeCalls = 1)
    /\ NegotiationFailed ~> (pc = "done" /\ ws = "none" /\ closeCalls = 1)

\* The session of a failed negotiation, ended: the browser was told, the
\* socket was closed by disconnect.
C27_Witness ==
    /\ pc = "done"
    /\ success = "False"
    /\ upSock = "closed_err"
    /\ closeCalls = 1 /\ disconnectCalls = 1
    /\ ws = "none"
    /\ clientOut = << ConnectErrorEnvelope >>

(***************************************************************************)
(* C28: the step that receives a JSON object whose type is neither         *)
(* audio_chunk nor audio_complete (another type, or no type field) writes  *)
(* nothing upstream, leaves audio_chunks_received as it is, writes nothing *)
(* to the client and leaves handle_client awaiting its next frame.         *)
(***************************************************************************)
IsOtherFrame(f) ==
    f.json = "object" /\ f.type \notin {"audio_chunk", "audio_complete"}

C28_OtherClientFrameIgnored ==
    [][ (ReceivesFrame /\ IsOtherFrame(FrameReceived)) =>
          /\ upstreamSent' = upstreamSent
          /\ audio_chunks_received' = audio_chunks_received
          /\ clientOut' = clientOut
          /\ hcPc' = "recv" /\ hcExit' = "none"
          /\ pc' = pc
          /\ UNCHANGED << openaiPipeVars, serviceVars, upSock, clientSock >> ]_vars

\* A chunk, a frame of another type, a frame without type, audio_complete:
\* the chunk is still pending and is committed.
C28_Witness ==
    /\ Len(clientIn) = 4
    /\ IsChunk(clientIn[1])
    /\ clientIn[2].json = "object" /\ clientIn[2].type = "ping"
    /\ clientIn[3].json = "object" /\ clientIn[3].type = "none"
    /\ IsComplete(clientIn[4])
    /\ NumAppends = 1 /\ NumCommits = 1
    /\ clientOut = <<>>
    /\ hcPc = "recv"

(***************************************************************************)
(* C29, as stated: a request that carries a thread_id (anything but None)  *)
(* is answered on exactly that thread_id by POST /chat (response body) and *)
(* POST /chat/stream (X-Thread-ID header); a request without one gets a    *)
(* fresh id.                                                               *)
(***************************************************************************)
Answered == {i \in 1..Len(log) : log[i].status = 200}

IsFreshAt(i) ==
    /\ log[i].returned \in {FreshIds[k] : k \in 1..Len(FreshIds)}
    /\ \A j \in 1..(i - 1) :
          log[j].used # log[i].returned /\ log[j].sent # log[i].returned

C29_ThreadIdEchoed ==
    \A i \in Answered :
        /\ log[i].used = log[i].returned
        /\ log[i].sent # NoThreadId => log[i].returned = log[i].sent
        /\ log[i].sent = NoThreadId => IsFreshAt(i)

(***************************************************************************)
(* C29, amended: a request whose thread_id is a non-empty string is        *)
(* answered on exactly that thread_id by both endpoints; a request whose   *)
(* thread_id is absent or the empty string gets a fresh id; the id         *)
(* returned is the one the agent ran on, so a request that sends a         *)
(* returned id back runs on the thread of the request that returned it.    *)
(***************************************************************************)
C29_NonEmptyThreadIdEchoed ==
    /\ \A i \in Answered :
          /\ log[i].used = log[i].returned
          /\ log[i].returned \notin {NoThreadId, ""}
          /\ log[i].sent \notin {NoThreadId, ""} => log[i].returned = log[i].sent
          /\ log[i].sent \in {NoThreadId, ""} => IsFreshAt(i)
    /\ \A i \in Answered : \A j \in 1..Len(log) :
          (i < j /\ log[j].sent = log[i].returned /\ log[j].status # 503)
             => log[j].used = log[i].used

\* A first request without thread_id on /chat, and a second on
\* /chat/stream that sends the returned id back.
C29_Witness ==
    /\ Len(log) = 2
    /\ log[1].endpoint = "chat" /\ log[1].sent = NoThreadId
    /\ log[1].status = 200 /\ log[1].returned = "uuid-1"
    /\ log[2].endpoint = "stream" /\ log[2].sent = "uuid-1"
    /\ log[2].status = 200 /\ log[2].returned = "uuid-1"
    /\ log[2].used = log[1].used

(***************************************************************************)
(* C30: framing of the streaming response.  The first record generate()    *)
(* yields is the thinking action; every record after it is a [TEXT] record *)
(* or the terminal record; a terminal record is the last one; a generator  *)
(* that has finished has yielded exactly one terminal record, [DONE] when  *)
(* agent.stream completed and [ERROR: ...] when it raised; while it runs   *)
(* no terminal record has been yielded.                                    *)
(***************************************************************************)
IsTextRecord(r) == r[2][1] = "[TEXT]" /\ r[2][Len(r[2])] = "[/TEXT]"
IsDoneRecord(r) == r[2] = << "[DONE]" >>
IsErrorRecord(r) == r[2][1] = "[ERROR: " /\ r[2][Len(r[2])] = "]"
IsTerminalRecord(r) == IsDoneRecord(r) \/ IsErrorRecord(r)

C30_StreamFraming ==
    /\ sse # <<>> => sse[1] = ThinkingRecord
    /\ \A i \in 2..Len(sse) : IsTextRecord(sse[i]) \/ IsTerminalRecord(sse[i])
    /\ \A i \in 1..Len(sse) : IsTerminalRecord(sse[i]) => i = Len(sse)
    /\ \A i \in 1..Len(sse) : sse[i][1] = "data: " /\ sse[i][3] = "\n\n"
    /\ agentOutcome = "running" =>
          sse # <<>> /\ ~IsTerminalRecord(sse[Len(sse)])
    /\ agentOutcome = "completed" =>
          sse # <<>> /\ IsDoneRecord(sse[Len(sse)])
    /\ agentOutcome = "raised" =>
          sse # <<>> /\ IsErrorRecord(sse[Len(sse)])

\* thinking, two [TEXT] records (the second with its newline escaped), and
\* [ERROR: ...] when agent.stream raised after them.
C30_Witness ==
    /\ agentOutcome = "raised"
    /\ Len(streamed) = 2
    /\ sse = << ThinkingRecord,
                SseRecord(<< "[TEXT]", << "\"", "H", "i", "\"" >>, "[/TEXT]" >>),
                SseRecord(<< "[TEXT]",
                             << "\"", "a", "\\", "n", "b", "\"" >>, "[/TEXT]" >>),
                ErrorRecord("boom") >>

====
